---- MODULE Spec2Model ----
(***************************************************************************)
(* A model of the node framework of FlightDataAnalyzer                      *)
(* (analysis_engine/node.py): operability of nodes, the NodeManager         *)
(* registry, alignment of section / key-time-instance / key-point-value     *)
(* collections, creation of KPVs and KTIs, and templated names.             *)
(*                                                                          *)
(* The source is Python 2 (dict.keys() lists, __nonzero__, im_class) with   *)
(* no "from __future__ import division": "/" between two ints is floor      *)
(* division.  Numbers therefore carry their Python type.  Floats are        *)
(* modelled as exact rationals; every float used below is a dyadic rational *)
(* of small magnitude, for which IEEE double arithmetic is exact.           *)
(***************************************************************************)
EXTENDS Integers, Sequences, FiniteSets, TLC

VARIABLES
    mgr,      \* the NodeManager snapshot
    opcall,   \* the last can_operate / operational call and its result
    cls,      \* the node class: name, NAME_FORMAT, NAME_VALUES
    node,     \* the collection node under test: kind, frequency, offset, items
    heap,     \* object store: the elements the collections refer to
    res,      \* the node returned by the last get_aligned(target) call
    back,     \* the node returned by aligning res back to the source
    orig,     \* the source's contents as last written by its own mutators
    ret       \* the outcome of the last call on the collection node

vars == <<mgr, opcall, cls, node, heap, res, back, orig, ret>>

-----------------------------------------------------------------------------
(* Python values.  t is the Python type; n/d the value of a number as a     *)
(* reduced fraction; s the text of a str.                                   *)

PyNone   == [t |-> "none",   n |-> 0, d |-> 1, s |-> ""]
Masked   == [t |-> "masked", n |-> 0, d |-> 1, s |-> ""]
PosInf   == [t |-> "float",  n |-> 1, d |-> 0, s |-> "inf"]
NegInf   == [t |-> "float",  n |-> -1, d |-> 0, s |-> "inf"]
NaN      == [t |-> "float",  n |-> 0, d |-> 0, s |-> "nan"]
PyInt(k) == [t |-> "int",    n |-> k, d |-> 1, s |-> ""]
PyStr(x) == [t |-> "str",    n |-> 0, d |-> 1, s |-> x]

Abs(k) == IF k < 0 THEN -k ELSE k

RECURSIVE GCD(_, _)
GCD(a, b) == IF b = 0 THEN a ELSE GCD(b, a % b)

\* the float p/q (q > 0), reduced
PyFloat(p, q) ==
    LET g == GCD(Abs(p), q)
    IN  [t |-> "float", n |-> p \div g, d |-> q \div g, s |-> ""]

IsNone(v)   == v.t = "none"
IsNumber(v) == v.t \in {"int", "float"} /\ v.d > 0
IsInf(v)    == v.t = "float" /\ v.d = 0 /\ v.n # 0
IsNaN(v)    == v.t = "float" /\ v.d = 0 /\ v.n = 0

\* float(value): an int becomes the float of the same value
ToFloat(v) == IF v.t = "int" THEN PyFloat(v.n, 1) ELSE v

\* a == b on Python numbers (1 == 1.0), None == None
PyEq(a, b) ==
    IF IsNumber(a) /\ IsNumber(b) THEN a.n * b.d = b.n * a.d ELSE a = b

\* bool(v) for None and numbers: None, 0 and 0.0 are false
Truthy(v) == IF IsNone(v) THEN FALSE ELSE v.n # 0

\* a or b
PyOr(a, b) == IF Truthy(a) THEN a ELSE b

BothInt(a, b) == a.t = "int" /\ b.t = "int"

\* a / b in Python 2 without true division: floor division of two ints
PyDiv(a, b) ==
    IF BothInt(a, b) THEN PyInt(a.n \div b.n)
    ELSE PyFloat(a.n * b.d, a.d * b.n)

PyMul(a, b) ==
    IF BothInt(a, b) THEN PyInt(a.n * b.n) ELSE PyFloat(a.n * b.n, a.d * b.d)

PyAdd(a, b) ==
    IF BothInt(a, b) THEN PyInt(a.n + b.n)
    ELSE PyFloat(a.n * b.d + b.n * a.d, a.d * b.d)

PySub(a, b) ==
    IF BothInt(a, b) THEN PyInt(a.n - b.n)
    ELSE PyFloat(a.n * b.d - b.n * a.d, a.d * b.d)

\* int(math.ceil(v))
CeilInt(v) == PyInt(-((-v.n) \div v.d))

\* exact rational arithmetic, used to state what a formula of the
\* specification evaluates to
RatDiv(a, b) == PyFloat(a.n * b.d, a.d * b.n)
RatMul(a, b) == PyFloat(a.n * b.n, a.d * b.d)
RatAdd(a, b) == PyFloat(a.n * b.d + b.n * a.d, a.d * b.d)
RatSub(a, b) == PyFloat(a.n * b.d - b.n * a.d, a.d * b.d)

-----------------------------------------------------------------------------
(* Operability: Node.can_operate and NodeManager.operational                *)

\* bounds of the operability model
MaxDeps == 2

DepNames == {"A", "B", "D"}

\* all(x in available for x in deps)
RECURSIVE AllIn(_, _)
AllIn(deps, available) ==
    IF deps = <<>> THEN TRUE
    ELSE IF Head(deps) \notin available THEN FALSE
    ELSE AllIn(Tail(deps), available)

\* any(d in available for d in deps): the override sampled in the docstring
RECURSIVE AnyIn(_, _)
AnyIn(deps, available) ==
    IF deps = <<>> THEN FALSE
    ELSE IF Head(deps) \in available THEN TRUE
    ELSE AnyIn(Tail(deps), available)

\* a can_operate that accepts any one dependency instead of all of them
Node_can_operate_AnyDep(deps, available) == AnyIn(deps, available)

\* Node.can_operate, the default implementation
Node_can_operate(deps, available) == AllIn(deps, available)

\* klass.can_operate(available): the default, or the class's override
can_operate(klass, available) ==
    IF klass.override = "any" THEN AnyIn(klass.deps, available)
    ELSE Node_can_operate(klass.deps, available)

\* itertools.combinations(s, r): the r-length subsequences of s, in
\* lexicographic order of their positions
RECURSIVE itertools_combinations(_, _)
itertools_combinations(s, r) ==
    IF r = 0 THEN << <<>> >>
    ELSE IF Len(s) < r THEN <<>>
    ELSE LET with == itertools_combinations(Tail(s), r - 1)
         IN  [i \in DOMAIN with |-> <<Head(s)>> \o with[i]]
                 \o itertools_combinations(Tail(s), r)

\* chain.from_iterable(combinations(s, r) for r in range(from, len(s)+1))
RECURSIVE ChainCombinations(_, _)
ChainCombinations(s, from) ==
    IF from > Len(s) THEN <<>>
    ELSE itertools_combinations(s, from) \o ChainCombinations(s, from + 1)

\* a powerset that stops at the combinations of one element
powerset_UpToOne(s) ==
    itertools_combinations(s, 0) \o itertools_combinations(s, 1)

\* powerset(iterable)
powerset(s) == ChainCombinations(s, 0)

\* a get_operational_combinations that leaves out the empty combination
\* and the single names
get_operational_combinations_FromPairs(klass) ==
    LET operates(args) == can_operate(klass, {args[i] : i \in DOMAIN args})
    IN  SelectSeq(ChainCombinations(klass.deps, 2), operates)

\* Node.get_operational_combinations
get_operational_combinations(klass) ==
    LET operates(args) == can_operate(klass, {args[i] : i \in DOMAIN args})
    IN  SelectSeq(powerset(klass.deps), operates)

\* dependency lists: 1..MaxDeps names (a node declares at least one)
DepLists == UNION {[1..k -> DepNames] : k \in 1..MaxDeps}

\* the classes registered in a manager's derived_nodes
RegClasses ==
    { [deps |-> <<"A", "D">>, override |-> "none"],
      [deps |-> <<"A", "D">>, override |-> "any"] }

\* dict.get(name): the value, or None when name is no key
DictGet(dict, name) == IF name \in DOMAIN dict THEN dict[name] ELSE PyNone

PartialMaps(keys, vals) == UNION {[ks -> vals] : ks \in SUBSET keys}

Managers ==
    [ lfl : SUBSET {"A", "B"},
      derived_nodes : PartialMaps({"B", "T"}, RegClasses),
      aircraft_info : PartialMaps({"T"}, {PyNone, PyStr("G-ABCD"), PyInt(0)}),
      achieved_flight_record : PartialMaps({"R"}, {PyNone, PyStr("EGLL")}) ]

QueryNames == {"A", "B", "T", "R", "X", "root", "Start Datetime"}

\* an operational that takes every key of the attribute dictionaries as
\* available, whatever its value
operational_AnyKey(m, name, available) ==
    IF \/ name \in m.lfl
       \/ name \in DOMAIN m.aircraft_info
       \/ name \in DOMAIN m.achieved_flight_record
       \/ name = "root"
       \/ name = "Start Datetime"
    THEN TRUE
    ELSE IF name \in DOMAIN m.derived_nodes
    THEN can_operate(m.derived_nodes[name], available)
    ELSE FALSE

\* NodeManager.operational
operational(m, name, available) ==
    IF \/ name \in m.lfl
       \/ ~IsNone(DictGet(m.aircraft_info, name))
       \/ ~IsNone(DictGet(m.achieved_flight_record, name))
       \/ name = "root"
       \/ name = "Start Datetime"
    THEN TRUE
    ELSE IF name \in DOMAIN m.derived_nodes
    THEN can_operate(m.derived_nodes[name], available)
    ELSE FALSE

\* the names a manager can hold, in the order sorted() gives them
SortedNames == <<"A", "B", "R", "Start Datetime", "T", "X", "root">>

KeyIn(keyset) == LET member(name) == name \in keyset IN SelectSeq(SortedNames, member)

\* a keys() that leaves out the names of the attributes
NodeManager_keys_WithoutAttributes(m) ==
    KeyIn({"Start Datetime"} \cup m.lfl \cup DOMAIN m.derived_nodes)

\* NodeManager.keys: sorted(list(set(...)))
NodeManager_keys(m) ==
    KeyIn({"Start Datetime"} \cup m.lfl \cup DOMAIN m.derived_nodes
              \cup DOMAIN m.aircraft_info \cup DOMAIN m.achieved_flight_record)

NoCall == [op |-> "none", klass |-> [deps |-> <<"A">>, override |-> "none"],
           name |-> "", available |-> {}, result |-> FALSE]

\* cls.can_operate(available) on a class that keeps the default.  The
\* manager and the classes are read-only, so a call leaves nothing behind
\* for the next one: each call is made on the snapshot as constructed.
CallCanOperate ==
    /\ opcall.op = "none"
    /\ \E deps \in DepLists, available \in SUBSET DepNames :
          opcall' = [op |-> "can_operate",
                     klass |-> [deps |-> deps, override |-> "none"],
                     name |-> "", available |-> available,
                     result |-> Node_can_operate(deps, available)]
    /\ UNCHANGED <<mgr, cls, node, heap, res, back, orig, ret>>

\* manager.operational(name, available)
CallOperational ==
    /\ opcall.op = "none"
    /\ \E name \in QueryNames, available \in SUBSET DepNames :
          opcall' = [op |-> "operational", klass |-> NoCall.klass,
                     name |-> name, available |-> available,
                     result |-> operational(mgr, name, available)]
    /\ UNCHANGED <<mgr, cls, node, heap, res, back, orig, ret>>

\* cls.get_operational_combinations() on a class that keeps the default
\* can_operate or overrides it
CallOperationalCombinations ==
    /\ opcall.op = "none"
    /\ \E deps \in DepLists, override \in {"none", "any"} :
          LET klass == [deps |-> deps, override |-> override] IN
          opcall' = [op |-> "get_operational_combinations", klass |-> klass,
                     name |-> "", available |-> {},
                     result |-> get_operational_combinations(klass)]
    /\ UNCHANGED <<mgr, cls, node, heap, res, back, orig, ret>>

\* cls.can_operate(available) and cls.get_operational_combinations() of
\* one class, as a caller that compares the two makes them
CallBoth ==
    /\ opcall.op = "none"
    /\ \E deps \in DepLists, override \in {"none", "any"},
          available \in SUBSET DepNames :
          LET klass == [deps |-> deps, override |-> override] IN
          opcall' = [op |-> "both", klass |-> klass, name |-> "",
                     available |-> available,
                     result |-> can_operate(klass, available),
                     combinations |-> get_operational_combinations(klass)]
    /\ UNCHANGED <<mgr, cls, node, heap, res, back, orig, ret>>

\* manager.keys()
CallKeys ==
    /\ opcall.op = "none"
    /\ opcall' = [op |-> "keys", klass |-> NoCall.klass, name |-> "",
                  available |-> {}, result |-> NodeManager_keys(mgr)]
    /\ UNCHANGED <<mgr, cls, node, heap, res, back, orig, ret>>

-----------------------------------------------------------------------------
(* Templated names: FormattedNameNode.names and format_name                 *)
(*                                                                          *)
(* A template is its literal text with the conversions cut out, and the     *)
(* conversions %(key)d / %(key)s in order.  A formatted name is the         *)
(* template's text with one rendered piece per conversion.  A piece is the  *)
(* value whose str() it is: the int k stands for its decimal digits, so     *)
(* that "%d" of 1000.7 and "%s" of 1000 render the same piece, and "%s" of  *)
(* 1000.0 another.  The str values used are not digit strings.              *)

NoFormat == [text |-> "", keys |-> <<>>]

PlainName(text) == [text |-> text, pieces |-> <<>>]

\* int(v) for a number: truncation toward zero
TruncInt(v) ==
    IF v.n >= 0 THEN PyInt(v.n \div v.d) ELSE PyInt(-((-v.n) \div v.d))

\* one conversion of "format % mapping"
Render(conv, v) == IF conv = "d" THEN TruncInt(v) ELSE v

\* NAME_FORMAT % rvals: the first failing conversion raises
RECURSIVE FormatPieces(_, _)
FormatPieces(keys, rvals) ==
    IF keys = <<>> THEN [exc |-> "none", pieces |-> <<>>]
    ELSE LET k == Head(keys) IN
         IF k.key \notin DOMAIN rvals
         THEN [exc |-> "KeyError", pieces |-> <<>>]
         ELSE IF k.conv = "d" /\ ~IsNumber(rvals[k.key])
         THEN [exc |-> "TypeError", pieces |-> <<>>]
         ELSE LET rest == FormatPieces(Tail(keys), rvals) IN
              IF rest.exc # "none" THEN rest
              ELSE [exc |-> "none",
                    pieces |-> <<Render(k.conv, rvals[k.key])>> \o rest.pieces]

Format(fmt, rvals) ==
    LET r == FormatPieces(fmt.keys, rvals)
    IN  [exc |-> r.exc, name |-> [text |-> fmt.text, pieces |-> r.pieces]]

\* itertools.product(*lists): tuples in order, the last list varying fastest
RECURSIVE Product(_)
Product(lists) ==
    IF lists = <<>> THEN << <<>> >>
    ELSE LET rest == Product(Tail(lists))
             first == Head(lists)
             n == Len(rest)
         IN  [i \in 1..(Len(first) * n) |->
                 <<first[((i - 1) \div n) + 1]>> \o rest[((i - 1) % n) + 1]]

\* dict(zip(keys, a))
ZipDict(keys, a) ==
    [k \in {keys[i] : i \in DOMAIN keys} |->
        a[CHOOSE i \in DOMAIN keys : keys[i] = k]]

\* Node.get_name: cls.name, or the title made from the class's identifier
get_name(c) == PlainName(IF c.name # "" THEN c.name ELSE c.verbose)

NameKeys(c)  == [i \in DOMAIN c.NAME_VALUES |-> c.NAME_VALUES[i].key]
NameLists(c) == [i \in DOMAIN c.NAME_VALUES |-> c.NAME_VALUES[i].vals]

FormattedNames(c) ==
    LET combos == Product(NameLists(c))
    IN  [i \in DOMAIN combos |->
            Format(c.NAME_FORMAT, ZipDict(NameKeys(c), combos[i])).name]

\* a names() that falls back to get_name() when either part is missing
names_EitherMissing(c) ==
    IF c.NAME_FORMAT = NoFormat \/ c.NAME_VALUES = <<>>
    THEN <<get_name(c)>>
    ELSE FormattedNames(c)

\* FormattedNameNode.names
names(c) ==
    IF c.NAME_FORMAT = NoFormat /\ c.NAME_VALUES = <<>>
    THEN <<get_name(c)>>
    ELSE FormattedNames(c)

SeqToSet(q) == {q[i] : i \in DOMAIN q}

\* a _validate_name that accepts every name
validate_name_Always(c, name) == TRUE

\* FormattedNameNode._validate_name
validate_name(c, name) == name \in SeqToSet(names(c))

\* a format_name that returns the substituted template without validating it
format_name_Unvalidated(c, rvals) ==
    IF DOMAIN rvals = {} /\ c.NAME_FORMAT = NoFormat
    THEN [exc |-> "none", name |-> get_name(c)]
    ELSE Format(c.NAME_FORMAT, rvals)

\* FormattedNameNode.format_name; replace_values and kwargs are one mapping
format_name(c, rvals) ==
    IF DOMAIN rvals = {} /\ c.NAME_FORMAT = NoFormat
    THEN [exc |-> "none", name |-> get_name(c)]
    ELSE LET f == Format(c.NAME_FORMAT, rvals) IN
         IF f.exc # "none" THEN f
         ELSE IF ~validate_name(c, f.name)
         THEN [exc |-> "ValueError", name |-> f.name]
         ELSE f

Alt(conv)   == [key |-> "alt", conv |-> conv]
Phase(conv) == [key |-> "phase", conv |-> conv]

AltValues   == [key |-> "alt", vals |-> <<PyInt(1000), PyInt(1500)>>]
PhaseValues == [key |-> "phase", vals |-> <<PyStr("ascent"), PyStr("descent")>>]

PlainClass ==
    [name |-> "", verbose |-> "Kpv Node",
     NAME_FORMAT |-> NoFormat, NAME_VALUES |-> <<>>]

\* the node classes: a node has NAME_VALUES only for a NAME_FORMAT
NameClasses ==
    { PlainClass,
      [name |-> "Fixed", verbose |-> "Kpv Node",
       NAME_FORMAT |-> NoFormat, NAME_VALUES |-> <<>>],
      [name |-> "", verbose |-> "Kpv Node",
       NAME_FORMAT |-> [text |-> "Top Of Climb", keys |-> <<>>],
       NAME_VALUES |-> <<>>],
      [name |-> "", verbose |-> "Kpv Node",
       NAME_FORMAT |-> [text |-> "Speed at %d ft", keys |-> <<Alt("d")>>],
       NAME_VALUES |-> <<AltValues>>],
      [name |-> "", verbose |-> "Kpv Node",
       NAME_FORMAT |-> [text |-> "Speed in %s at %d ft",
                        keys |-> <<Phase("s"), Alt("d")>>],
       NAME_VALUES |-> <<AltValues, PhaseValues>>],
      [name |-> "", verbose |-> "Kpv Node",
       NAME_FORMAT |-> [text |-> "Speed at %s ft", keys |-> <<Alt("s")>>],
       NAME_VALUES |-> <<PhaseValues, AltValues>>] }

\* the replace_values of a call
NoValues == [k \in {} |-> PyNone]

ReplaceValues ==
    { NoValues,
      [alt |-> PyInt(1000)],
      [alt |-> PyInt(1200)],
      [alt |-> PyFloat(3001, 2)],
      [alt |-> PyStr("high")],
      [alt |-> PyInt(1500), phase |-> PyStr("descent")],
      [alt |-> PyInt(1500), phase |-> PyStr("cruise")] }

\* bound on the length of an option list of NAME_VALUES
MaxOptions == 2

AltOptions   == <<PyInt(1000), PyInt(1500), PyInt(2000), PyInt(2500)>>
PhaseOptions == <<PyStr("ascent"), PyStr("descent"), PyStr("cruise"),
                  PyStr("approach")>>

OptionLists(key, options) ==
    {[key |-> key, vals |-> SubSeq(options, 1, k)] : k \in 1..MaxOptions}

NameValuesChoices ==
    LET alts == OptionLists("alt", AltOptions)
        phases == OptionLists("phase", PhaseOptions)
    IN  {<<>>} \cup {<<a>> : a \in alts} \cup {<<ph>> : ph \in phases}
            \cup {<<a, ph>> : a \in alts, ph \in phases}
            \cup {<<ph, a>> : a \in alts, ph \in phases}

NameFormats ==
    { NoFormat,
      [text |-> "Top Of Climb", keys |-> <<>>],
      [text |-> "Speed at %d ft", keys |-> <<Alt("d")>>],
      [text |-> "Speed at %s ft", keys |-> <<Alt("s")>>],
      [text |-> "Speed in %s at %d ft", keys |-> <<Phase("s"), Alt("d")>>] }

\* the classes names() is called on: every key of the template has its
\* option list, and NAME_VALUES is given only together with a NAME_FORMAT
AllNameClasses ==
    { c \in [name : {"", "Fixed"}, verbose : {"Kpv Node"},
             NAME_FORMAT : NameFormats, NAME_VALUES : NameValuesChoices] :
        /\ \A i \in DOMAIN c.NAME_FORMAT.keys :
               \E j \in DOMAIN c.NAME_VALUES :
                   c.NAME_VALUES[j].key = c.NAME_FORMAT.keys[i].key
        /\ c.NAME_VALUES # <<>> => c.NAME_FORMAT # NoFormat }

-----------------------------------------------------------------------------
(* Collections: SectionNode, KeyTimeInstanceNode, KeyPointValueNode.        *)
(*                                                                          *)
(* A node is a list of references into the object store.  A KeyTimeInstance *)
(* or KeyPointValue is a mutable record (recordtype); a Section is an       *)
(* immutable namedtuple.                                                    *)

\* bound on the length of a collection
MaxItems == 2

Slice(start, stop) == [start |-> start, stop |-> stop]

NoNode == [kind |-> "none", name |-> PlainName(""), frequency |-> PyNone,
           offset |-> PyNone, items |-> <<>>]

EmptyHeap == [id \in {} |-> PyNone]

\* the elements of a collection, in order
Contents(n, h) == [i \in DOMAIN n.items |-> h[n.items[i]]]

Snapshot(n, h) ==
    [frequency |-> n.frequency, offset |-> n.offset, elems |-> Contents(n, h)]

\* a new object's identity: one that no live object has
NextFree(used) ==
    CHOOSE i \in 1..(Cardinality(used) + 1) :
        i \notin used /\ \A j \in 1..(i - 1) : j \in used

\* list.append(e) of a newly constructed element
AppendNew(n, h, e) ==
    LET id == NextFree(DOMAIN h)
    IN  [node |-> [n EXCEPT !.items = Append(@, id)],
         heap |-> h @@ (id :> e)]

\* Node.__init__ of a collection class: name or get_name()
NewNode(kind, name, frequency, offset) ==
    [kind |-> kind,
     name |-> IF name.text # "" THEN name ELSE get_name(cls),
     frequency |-> frequency, offset |-> offset, items |-> <<>>]

\* a create_section that takes begin / end only when they are not None
create_section_NotNone(n, h, section_slice, name, begin, end) ==
    AppendNew(n, h,
        [name |-> IF name.text # "" THEN name ELSE get_name(cls),
         slice |-> section_slice,
         start_edge |-> IF IsNone(begin) THEN section_slice.start ELSE begin,
         stop_edge |-> IF IsNone(end) THEN section_slice.stop ELSE end])

\* SectionNode.create_section
create_section(n, h, section_slice, name, begin, end) ==
    AppendNew(n, h,
        [name |-> IF name.text # "" THEN name ELSE get_name(cls),
         slice |-> section_slice,
         start_edge |-> PyOr(begin, section_slice.start),
         stop_edge |-> PyOr(end, section_slice.stop)])

\* multiplier and offset of get_aligned
Multiplier(n, param) == PyDiv(param.frequency, n.frequency)
OffsetShift(n, param) ==
    PyMul(PySub(n.offset, param.offset), param.frequency)

\* (index * multiplier) + offset
AlignIndex(index, n, param) ==
    PyAdd(PyMul(index, Multiplier(n, param)), OffsetShift(n, param))

\* the loop of SectionNode.get_aligned from the i-th section on
RECURSIVE AlignSections(_, _, _, _, _)
AlignSections(n, param, i, aligned, h) ==
    IF i > Len(n.items) THEN [node |-> aligned, heap |-> h]
    ELSE LET section == h[n.items[i]]
             converted_start ==
                 IF IsNone(section.start_edge) THEN PyNone
                 ELSE AlignIndex(section.start_edge, n, param)
             inner_slice_start ==
                 IF IsNone(section.start_edge) THEN PyNone
                 ELSE CeilInt(converted_start)
             converted_stop ==
                 IF IsNone(section.stop_edge) THEN PyNone
                 ELSE AlignIndex(section.stop_edge, n, param)
             inner_slice_stop ==
                 IF IsNone(section.stop_edge) THEN PyNone
                 ELSE CeilInt(converted_stop)
             made == create_section(aligned, h,
                         Slice(inner_slice_start, inner_slice_stop),
                         section.name, converted_start, converted_stop)
         IN  AlignSections(n, param, i + 1, made.node, made.heap)

\* a loop that aligns the source's own elements instead of copies of them
RECURSIVE AlignElements_NoCopy(_, _, _, _, _)
AlignElements_NoCopy(n, param, i, aligned, h) ==
    IF i > Len(n.items) THEN [node |-> aligned, heap |-> h]
    ELSE LET id == n.items[i]
             index_aligned == AlignIndex(h[id].index, n, param)
         IN  AlignElements_NoCopy(n, param, i + 1,
                 [aligned EXCEPT !.items = Append(@, id)],
                 [h EXCEPT ![id].index = index_aligned])

\* the loop of KeyTimeInstanceNode.get_aligned and of
\* KeyPointValueNode.get_aligned from the i-th element on: copy.copy of the
\* element, its index replaced
RECURSIVE AlignElements(_, _, _, _, _)
AlignElements(n, param, i, aligned, h) ==
    IF i > Len(n.items) THEN [node |-> aligned, heap |-> h]
    ELSE LET elem == h[n.items[i]]
             index_aligned == AlignIndex(elem.index, n, param)
             made == AppendNew(aligned, h, [elem EXCEPT !.index = index_aligned])
         IN  AlignElements(n, param, i + 1, made.node, made.heap)

\* get_aligned(param) of the three collection classes
get_aligned(n, h, param) ==
    IF n.kind = "section"
    THEN AlignSections(n, param, 1,
             NewNode("section", PlainName(""), param.frequency, param.offset), h)
    ELSE AlignElements(n, param, 1,
             NewNode(n.kind, n.name, param.frequency, param.offset), h)

-----------------------------------------------------------------------------
(* Creation of key point values and key time instances                      *)

Raised(n, h, exc)   == [node |-> n, heap |-> h, exc |-> exc, val |-> PyNone]
Returned(n, h, val) == [node |-> n, heap |-> h, exc |-> "none", val |-> val]

Appended(n, h, e) ==
    LET made == AppendNew(n, h, e) IN Returned(made.node, made.heap, e)

\* a create_kpv without the checks for infinite and NaN values
create_kpv_NoFiniteCheck(n, h, index, value, rvals) ==
    IF IsNone(index) \/ IsNone(value) THEN Returned(n, h, PyNone)
    ELSE IF value = Masked THEN Returned(n, h, PyNone)
    ELSE LET f == format_name(cls, rvals) IN
         IF f.exc # "none" THEN Raised(n, h, f.exc)
         ELSE Appended(n, h, [index |-> index, value |-> ToFloat(value),
                              name |-> f.name, slice |-> Slice(PyNone, PyNone)])

\* KeyPointValueNode.create_kpv
create_kpv(n, h, index, value, rvals) ==
    IF IsNone(index) \/ IsNone(value) THEN Returned(n, h, PyNone)
    ELSE IF value = Masked THEN Returned(n, h, PyNone)
    ELSE LET v == ToFloat(value) IN
         IF IsInf(v) THEN Returned(n, h, PyNone)
         ELSE IF IsNaN(v) THEN Returned(n, h, PyNone)
         ELSE LET f == format_name(cls, rvals) IN
              IF f.exc # "none" THEN Raised(n, h, f.exc)
              ELSE Appended(n, h, [index |-> index, value |-> v,
                                   name |-> f.name,
                                   slice |-> Slice(PyNone, PyNone)])

\* a create_kti without the check of the index
create_kti_NoIndexCheck(n, h, index, rvals) ==
    LET f == format_name(cls, rvals) IN
    IF f.exc # "none" THEN Raised(n, h, f.exc)
    ELSE Appended(n, h, [index |-> index, name |-> f.name])

\* KeyTimeInstanceNode.create_kti
create_kti(n, h, index, rvals) ==
    IF IsNone(index) THEN Raised(n, h, "ValueError")
    ELSE LET f == format_name(cls, rvals) IN
         IF f.exc # "none" THEN Raised(n, h, f.exc)
         ELSE Appended(n, h, [index |-> index, name |-> f.name])

-----------------------------------------------------------------------------
(* Queries on collections: get, get_ordered_by_index, get_first, get_last,  *)
(* get_next and get_previous of SectionNode and of FormattedNameNode.  A    *)
(* query works on the elements in list order and returns one of them, or    *)
(* None.                                                                    *)

\* a < b of two numbers
PyLess(a, b) == a.n * b.d < b.n * a.d

\* "if name": the empty string stands for no name filter
NameGiven(name) == name # PlainName("")

\* "if within_slice": None stands for no slice filter; a slice is truthy
WithinGiven(within_slice) == within_slice # PyNone

\* library.is_index_within_slice: start <= index < stop, a bound of None
\* being open
is_index_within_slice(index, within) ==
    /\ IsNone(within.start) \/ ~PyLess(index, within.start)
    /\ IsNone(within.stop) \/ PyLess(index, within.stop)

\* library.is_slice_within_slice: the slice lies inside within, a bound of
\* None being open
is_slice_within_slice(inner, within) ==
    /\ IsNone(within.start) \/ ~PyLess(inner.start, within.start)
    /\ IsNone(within.stop) \/ ~PyLess(within.stop, inner.stop)

\* attrgetter('index'), attrgetter('slice.start'), attrgetter('slice.stop')
KeyOf(e, key) ==
    IF key = "index" THEN e.index
    ELSE IF key = "start" THEN e.slice.start
    ELSE e.slice.stop

\* sorted(seq, key=...): stable, ascending
InsertByKey(ordered, e, key) ==
    LET n == Cardinality({i \in DOMAIN ordered :
                             ~PyLess(KeyOf(e, key), KeyOf(ordered[i], key))})
    IN  SubSeq(ordered, 1, n) \o <<e>> \o SubSeq(ordered, n + 1, Len(ordered))

RECURSIVE SortedByKey(_, _)
SortedByKey(seq, key) ==
    IF seq = <<>> THEN <<>>
    ELSE InsertByKey(SortedByKey(SubSeq(seq, 1, Len(seq) - 1), key),
                     seq[Len(seq)], key)

\* min(seq, key=...) and max(seq, key=...): the first of the least / of the
\* greatest elements, None standing for the empty case of the callers
MinByKey(seq, key) ==
    IF seq = <<>> THEN PyNone
    ELSE seq[CHOOSE i \in DOMAIN seq :
                /\ \A j \in DOMAIN seq : ~PyLess(KeyOf(seq[j], key), KeyOf(seq[i], key))
                /\ \A j \in 1..(i - 1) : PyLess(KeyOf(seq[i], key), KeyOf(seq[j], key))]

MaxByKey(seq, key) ==
    IF seq = <<>> THEN PyNone
    ELSE seq[CHOOSE i \in DOMAIN seq :
                /\ \A j \in DOMAIN seq : ~PyLess(KeyOf(seq[i], key), KeyOf(seq[j], key))
                /\ \A j \in 1..(i - 1) : PyLess(KeyOf(seq[j], key), KeyOf(seq[i], key))]

\* "for elem in ordered: if key(elem) > index: return elem", else None
FirstAbove(ordered, key, index) ==
    LET hits == {i \in DOMAIN ordered : PyLess(index, KeyOf(ordered[i], key))}
    IN  IF hits = {} THEN PyNone
        ELSE ordered[CHOOSE i \in hits : \A j \in hits : i <= j]

\* "for elem in reversed(ordered): if key(elem) < index: return elem"
LastBelow(ordered, key, index) ==
    LET hits == {i \in DOMAIN ordered : PyLess(KeyOf(ordered[i], key), index)}
    IN  IF hits = {} THEN PyNone
        ELSE ordered[CHOOSE i \in hits : \A j \in hits : i >= j]

\* "if frequency: index = index * (self.frequency / float(frequency))"
ConvertIndex(index, self_frequency, frequency) ==
    IF Truthy(frequency)
    THEN PyMul(index, PyDiv(self_frequency, ToFloat(frequency)))
    ELSE index

\* SectionNode._get_condition with within_use='slice', applied to e
Section_condition(e, name, within_slice) ==
    IF WithinGiven(within_slice) /\ NameGiven(name)
    THEN is_slice_within_slice(e.slice, within_slice) /\ e.name = name
    ELSE IF WithinGiven(within_slice)
    THEN is_slice_within_slice(e.slice, within_slice)
    ELSE IF NameGiven(name) THEN e.name = name
    ELSE TRUE

\* SectionNode.get: the matching sections, in list order
Section_get(elems, name, within_slice) ==
    LET condition(e) == Section_condition(e, name, within_slice)
    IN  SelectSeq(elems, condition)

\* SectionNode.get_ordered_by_index
Section_get_ordered_by_index(elems, order_by, name, within_slice) ==
    SortedByKey(Section_get(elems, name, within_slice), order_by)

\* SectionNode.get_first
Section_get_first(elems, first_by, name, within_slice) ==
    MinByKey(Section_get(elems, name, within_slice), first_by)

\* SectionNode.get_last
Section_get_last(elems, last_by, name, within_slice) ==
    MaxByKey(Section_get(elems, name, within_slice), last_by)

\* SectionNode.get_next: the sections are ordered by the default order_by,
\* 'start', whatever use is
Section_get_next(elems, self_frequency, index, frequency, use, name, within_slice) ==
    FirstAbove(Section_get_ordered_by_index(elems, "start", name, within_slice),
               use, ConvertIndex(index, self_frequency, frequency))

\* SectionNode.get_previous
Section_get_previous(elems, self_frequency, index, frequency, use, name, within_slice) ==
    LastBelow(Section_get_ordered_by_index(elems, "start", name, within_slice),
              use, ConvertIndex(index, self_frequency, frequency))

\* a _get_condition that checks no name
Formatted_condition_NeverRaises(c, name, within_slice) == FALSE

\* FormattedNameNode._get_condition: the name is checked against names()
\* only when it is the one filter
Formatted_condition_raises(c, name, within_slice) ==
    /\ ~WithinGiven(within_slice)
    /\ NameGiven(name)
    /\ name \notin SeqToSet(names(c))

Formatted_condition(e, name, within_slice) ==
    IF WithinGiven(within_slice) /\ NameGiven(name)
    THEN is_index_within_slice(e.index, within_slice) /\ e.name = name
    ELSE IF WithinGiven(within_slice)
    THEN is_index_within_slice(e.index, within_slice)
    ELSE IF NameGiven(name) THEN e.name = name
    ELSE TRUE

\* FormattedNameNode.get: the matching elements in list order, or the
\* ValueError of _get_condition
Formatted_get(elems, c, name, within_slice) ==
    IF Formatted_condition_raises(c, name, within_slice)
    THEN [exc |-> "ValueError", elems |-> <<>>]
    ELSE LET condition(e) == Formatted_condition(e, name, within_slice)
         IN  [exc |-> "none", elems |-> SelectSeq(elems, condition)]

\* the result of a query: the element returned, or the exception raised
QueryResult(got, val) ==
    [exc |-> got.exc, val |-> IF got.exc = "none" THEN val ELSE PyNone]

\* FormattedNameNode.get_first
Formatted_get_first(elems, c, name, within_slice) ==
    LET got == Formatted_get(elems, c, name, within_slice)
    IN  QueryResult(got, MinByKey(got.elems, "index"))

\* FormattedNameNode.get_last
Formatted_get_last(elems, c, name, within_slice) ==
    LET got == Formatted_get(elems, c, name, within_slice)
    IN  QueryResult(got, MaxByKey(got.elems, "index"))

\* FormattedNameNode.get_next
Formatted_get_next(elems, c, self_frequency, index, frequency, name, within_slice) ==
    LET got == Formatted_get(elems, c, name, within_slice)
    IN  QueryResult(got, FirstAbove(SortedByKey(got.elems, "index"), "index",
                             ConvertIndex(index, self_frequency, frequency)))

\* FormattedNameNode.get_previous
Formatted_get_previous(elems, c, self_frequency, index, frequency, name, within_slice) ==
    LET got == Formatted_get(elems, c, name, within_slice)
    IN  QueryResult(got, LastBelow(SortedByKey(got.elems, "index"), "index",
                             ConvertIndex(index, self_frequency, frequency)))

-----------------------------------------------------------------------------
(* The calls                                                                *)

Indexes == {PyNone, PyInt(3)}

\* the indexes of the elements that get aligned
AlignedIndexes == {PyInt(3), PyFloat(3, 2)}

Values == {PyNone, Masked, PosInf, NegInf, NaN, PyInt(5)}

SectionCall(section_slice, begin, end) ==
    [slice |-> section_slice, name |-> PlainName(""),
     begin |-> begin, end |-> end]

\* the create_section calls: whole-sample and open-ended sections, a first
\* sample given as begin, fractional edges inside and outside the slice
SectionCalls ==
    { SectionCall(Slice(PyInt(2), PyInt(5)), PyNone, PyNone),
      SectionCall(Slice(PyNone, PyInt(5)), PyNone, PyNone),
      SectionCall(Slice(PyInt(0), PyInt(3)), PyInt(0), PyNone),
      SectionCall(Slice(PyInt(2), PyInt(6)), PyFloat(3, 2), PyFloat(11, 2)),
      SectionCall(Slice(PyInt(2), PyInt(5)), PyFloat(3, 2), PyFloat(11, 2)) }

\* create_section calls with a name, and with begin / end given as zero
EdgeCalls ==
    { [slice |-> section_slice, name |-> PlainName(name),
       begin |-> begin, end |-> end] :
        section_slice \in { Slice(PyInt(1), PyInt(4)), Slice(PyNone, PyInt(4)) },
        name \in {"", "Climb"},
        begin \in {PyNone, PyInt(0), PyFloat(3, 2)},
        end \in {PyNone, PyFloat(0, 1), PyFloat(9, 2)} }

Rate(frequency, offset) == [frequency |-> frequency, offset |-> offset]

\* frequency and offset of the nodes; 0 <= offset < 1 / frequency
Rates ==
    { Rate(PyInt(1), PyInt(0)),
      Rate(PyInt(2), PyFloat(1, 4)),
      Rate(PyFloat(2, 1), PyFloat(1, 4)) }

NoRet == [op |-> "none", args |-> <<>>, exc |-> "none", val |-> PyNone,
          before |-> <<>>]

Restrict(h, ids) == [id \in ids |-> h[id]]

Ids(n) == SeqToSet(n.items)

UnchangedRegistry == UNCHANGED <<mgr, opcall, cls>>

\* node.create_section(section_slice, name, begin, end)
CreateSectionOf(calls) ==
    /\ node.kind = "section"
    /\ Len(node.items) < MaxItems
    /\ \E call \in calls :
          LET made == create_section(node, heap, call.slice, call.name,
                                     call.begin, call.end) IN
          /\ node' = made.node
          /\ heap' = made.heap
          /\ orig' = Snapshot(made.node, made.heap)
          /\ ret' = [op |-> "create_section",
                     args |-> call,
                     exc |-> "none", val |-> PyNone,
                     before |-> Contents(node, heap)]
    /\ UNCHANGED <<res, back>>
    /\ UnchangedRegistry

CreateSection == CreateSectionOf(SectionCalls)

\* node.create_kpv(index, value, replace_values)
CreateKpv(indexes, values, replacements) ==
    /\ node.kind = "kpv"
    /\ \E index \in indexes, value \in values, rvals \in replacements :
          LET out == create_kpv(node, heap, index, value, rvals) IN
          /\ Len(out.node.items) <= MaxItems
          /\ node' = out.node
          /\ heap' = out.heap
          /\ orig' = Snapshot(out.node, out.heap)
          /\ ret' = [op |-> "create_kpv",
                     args |-> [index |-> index, value |-> value,
                               rvals |-> rvals],
                     exc |-> out.exc, val |-> out.val,
                     before |-> Contents(node, heap)]
    /\ UNCHANGED <<res, back>>
    /\ UnchangedRegistry

\* node.create_kti(index, replace_values)
CreateKti(indexes, replacements) ==
    /\ node.kind = "kti"
    /\ \E index \in indexes, rvals \in replacements :
          LET out == create_kti(node, heap, index, rvals) IN
          /\ Len(out.node.items) <= MaxItems
          /\ node' = out.node
          /\ heap' = out.heap
          /\ orig' = Snapshot(out.node, out.heap)
          /\ ret' = [op |-> "create_kti",
                     args |-> [index |-> index, rvals |-> rvals],
                     exc |-> out.exc, val |-> out.val,
                     before |-> Contents(node, heap)]
    /\ UNCHANGED <<res, back>>
    /\ UnchangedRegistry

\* res = node.get_aligned(param); earlier results are no longer referenced
GetAligned ==
    /\ node.kind # "none"
    /\ \E param \in Rates :
          LET out == get_aligned(node, Restrict(heap, Ids(node)), param) IN
          /\ res' = out.node
          /\ heap' = out.heap
          /\ ret' = [op |-> "get_aligned", args |-> [param |-> param],
                     exc |-> "none", val |-> PyNone,
                     before |-> Contents(node, heap)]
    /\ back' = NoNode
    /\ UNCHANGED <<node, orig>>
    /\ UnchangedRegistry

\* back = res.get_aligned(node)
AlignBack ==
    /\ res.kind # "none"
    /\ ret.op \in {"get_aligned", "set_index", "align_back"}
    /\ LET out == get_aligned(res, Restrict(heap, Ids(node) \cup Ids(res)),
                              Rate(node.frequency, node.offset)) IN
       /\ back' = out.node
       /\ heap' = out.heap
       /\ ret' = [op |-> "align_back",
                  args |-> [pristine |->
                               \/ ret.op = "get_aligned"
                               \/ ret.op = "align_back" /\ ret.args.pristine],
                  exc |-> "none", val |-> PyNone,
                  before |-> Contents(node, heap)]
    /\ UNCHANGED <<node, res, orig>>
    /\ UnchangedRegistry

NewIndex == PyInt(99)

\* res[i].index = NewIndex: the caller changes an element of the result
SetResultIndex ==
    /\ res.kind \in {"kti", "kpv"}
    /\ ret.op \in {"get_aligned", "set_index", "align_back"}
    /\ \E i \in DOMAIN res.items :
          /\ heap[res.items[i]].index # NewIndex
          /\ heap' = [heap EXCEPT ![res.items[i]].index = NewIndex]
          /\ ret' = [op |-> "set_index", args |-> [i |-> i],
                     exc |-> "none", val |-> PyNone,
                     before |-> Contents(node, heap)]
    /\ UNCHANGED <<node, res, back, orig>>
    /\ UnchangedRegistry

\* cls.names(); a class is read-only, so the call is made once
CallNames ==
    /\ ret.op = "none"
    /\ ret' = [op |-> "names", args |-> <<>>, exc |-> "none",
               val |-> names(cls), before |-> <<>>]
    /\ UNCHANGED <<node, heap, res, back, orig>>
    /\ UnchangedRegistry

\* the class of the queried key time instances and key point values
QueryClass ==
    [name |-> "", verbose |-> "Kpv Node",
     NAME_FORMAT |-> [text |-> "Speed at %d ft", keys |-> <<Alt("d")>>],
     NAME_VALUES |-> <<AltValues>>]

SpeedAt(alt) == Format(QueryClass.NAME_FORMAT, [alt |-> PyInt(alt)]).name

\* the sections queried: one nested in another, two of the same slice,
\* under two names
QuerySections ==
    { [slice |-> Slice(PyInt(0), PyInt(10)), name |-> PlainName("Climb"),
       begin |-> PyNone, end |-> PyNone],
      [slice |-> Slice(PyInt(2), PyInt(5)), name |-> PlainName("Climb"),
       begin |-> PyNone, end |-> PyNone],
      [slice |-> Slice(PyInt(2), PyInt(5)), name |-> PlainName("Cruise"),
       begin |-> PyNone, end |-> PyNone],
      [slice |-> Slice(PyInt(6), PyInt(8)), name |-> PlainName("Cruise"),
       begin |-> PyNone, end |-> PyNone] }

QueryElementIndexes == {PyInt(2), PyInt(5), PyFloat(11, 2)}
QueryReplacements == {[alt |-> PyInt(1000)], [alt |-> PyInt(1500)]}

\* the arguments of the queries: index and its frequency, the name and
\* slice filters (a name that some, and one that no element carries)
QueryIndexes == {PyInt(3), PyInt(11)}
QueryFrequencies == {PyNone, PyInt(2)}
QueryWithin == {PyNone, Slice(PyInt(1), PyInt(9))}
SectionFilterNames == {PlainName(""), PlainName("Climb"), PlainName("Taxi")}
ElementFilterNames == {PlainName(""), SpeedAt(1000), SpeedAt(1500), SpeedAt(1200)}

QueryOps == {"get_first", "get_last", "get_next", "get_previous"}

\* a query changes nothing, so each is made on the collection as the
\* create calls left it
Queried(op, args, out) ==
    /\ ret.op \notin QueryOps
    /\ ret' = [op |-> op, args |-> args, exc |-> out.exc, val |-> out.val,
               before |-> Contents(node, heap)]
    /\ UNCHANGED <<node, heap, res, back, orig>>
    /\ UnchangedRegistry

\* node.get_first(first_by, name, within_slice) / node.get_last(...) on a
\* SectionNode, node.get_first(within_slice, name) / node.get_last(...) on
\* a KeyTimeInstanceNode or KeyPointValueNode
GetFirstOrLast ==
    /\ node.kind # "none"
    /\ \E op \in {"get_first", "get_last"}, within \in QueryWithin :
          LET elems == Contents(node, heap) IN
          IF node.kind = "section"
          THEN \E by \in {"start", "stop"}, name \in SectionFilterNames :
                  Queried(op, [by |-> by, name |-> name, within |-> within],
                      [exc |-> "none",
                       val |-> IF op = "get_first"
                               THEN Section_get_first(elems, by, name, within)
                               ELSE Section_get_last(elems, by, name, within)])
          ELSE \E name \in ElementFilterNames :
                  Queried(op, [by |-> "index", name |-> name, within |-> within],
                      IF op = "get_first"
                      THEN Formatted_get_first(elems, cls, name, within)
                      ELSE Formatted_get_last(elems, cls, name, within))

\* node.get_next(index, frequency, use, name, within_slice) /
\* node.get_previous(...) on a SectionNode, node.get_next(index, frequency,
\* within_slice, name) / node.get_previous(...) on the other collections
GetNextOrPrevious ==
    /\ node.kind # "none"
    /\ \E op \in {"get_next", "get_previous"}, index \in QueryIndexes,
          frequency \in QueryFrequencies, within \in QueryWithin :
          LET elems == Contents(node, heap) IN
          IF node.kind = "section"
          THEN \E use \in {"start", "stop"}, name \in SectionFilterNames :
                  Queried(op, [index |-> index, frequency |-> frequency,
                               by |-> use, name |-> name, within |-> within],
                      [exc |-> "none",
                       val |-> IF op = "get_next"
                               THEN Section_get_next(elems, node.frequency, index,
                                        frequency, use, name, within)
                               ELSE Section_get_previous(elems, node.frequency,
                                        index, frequency, use, name, within)])
          ELSE \E name \in ElementFilterNames :
                  Queried(op, [index |-> index, frequency |-> frequency,
                               by |-> "index", name |-> name, within |-> within],
                      IF op = "get_next"
                      THEN Formatted_get_next(elems, cls, node.frequency, index,
                               frequency, name, within)
                      ELSE Formatted_get_previous(elems, cls, node.frequency,
                               index, frequency, name, within))

-----------------------------------------------------------------------------
(* Attributes: Attribute and FlightAttributeNode hold one value of any      *)
(* type.  A list is modelled by its length.                                 *)

PyBool(b)  == [t |-> "bool", n |-> IF b THEN 1 ELSE 0, d |-> 1, s |-> ""]
PyList(k)  == [t |-> "list", n |-> k, d |-> 1, s |-> ""]

\* bool(v): None, False, zero, the empty string and the empty list are
\* false
Bool(v) ==
    IF v.t = "none" THEN FALSE
    ELSE IF v.t = "str" THEN v.s # ""
    ELSE IF v.t = "float" /\ v.d = 0 THEN TRUE
    ELSE v.n # 0

\* v == 0: true of 0, 0.0 and False
EqualsZero(v) == v.t \in {"bool", "int", "float"} /\ v.d > 0 /\ v.n = 0

\* v is False
IsFalse(v) == v = PyBool(FALSE)

\* a __nonzero__ that is the truth value of the value
nonzero_OfValue(value) == Bool(value)

\* Attribute.__nonzero__ and FlightAttributeNode.__nonzero__
nonzero(value) ==
    Bool(value) \/ (EqualsZero(value) /\ ~IsFalse(value))

AttributeValues ==
    { PyNone, PyBool(FALSE), PyBool(TRUE), PyInt(0), PyFloat(0, 1), PyInt(5),
      PyFloat(1, 2), PyStr(""), PyStr("G-ABCD"), PyList(0), PyList(2) }

AttributeNames == {"Tail Number", "FDR Takeoff Airport", "Takeoff Fuel"}

\* Attribute(name, value)
NewAttribute(name, value) ==
    [kind |-> "attribute", name |-> PlainName(name), frequency |-> PyNone,
     offset |-> PyNone, items |-> <<>>, value |-> value]

\* FlightAttributeNode(name): the value starts as None
NewFlightAttributeNode(name) ==
    [kind |-> "flight_attribute", name |-> PlainName(name),
     frequency |-> PyNone, offset |-> PyNone, items |-> <<>>,
     value |-> PyNone]

IsAttribute(n) == n.kind \in {"attribute", "flight_attribute"}

\* node.set_flight_attribute(value)
SetFlightAttribute ==
    /\ node.kind = "flight_attribute"
    /\ \E value \in AttributeValues :
          /\ node' = [node EXCEPT !.value = value]
          /\ ret' = [op |-> "set_flight_attribute", args |-> [value |-> value],
                     exc |-> "none", val |-> PyNone, before |-> <<>>]
    /\ UNCHANGED <<heap, res, back, orig>>
    /\ UnchangedRegistry

\* bool(node)
CallNonzero ==
    /\ IsAttribute(node)
    /\ ret.op # "nonzero"
    /\ ret' = [op |-> "nonzero", args |-> <<>>, exc |-> "none",
               val |-> PyBool(nonzero(node.value)), before |-> <<>>]
    /\ UNCHANGED <<node, heap, res, back, orig>>
    /\ UnchangedRegistry

-----------------------------------------------------------------------------
(* Multi-state parameters: MultistateDerivedParameterNode keeps its array   *)
(* as raw integer codes with a mask, and values_mapping from code to        *)
(* label.  An array is a sequence of [value, mask].                         *)

\* bound on the length of an assigned array
MaxArray == 2

\* output_array.fill_value = 999999
FillValue == 999999

Cell(value, mask) == [value |-> value, mask |-> mask]

ValuesMappings ==
    { (0 :> "Up") @@ (1 :> "Down"),
      (0 :> "Off") @@ (1 :> "On") @@ (2 :> "On") }

Labels(mapping) == {mapping[c] : c \in DOMAIN mapping}

\* {v: k for k, v in self.values_mapping.items()}: of the codes that share
\* a label, the one the dictionary yields last is kept
ReversedMappings(mapping) ==
    {r \in [Labels(mapping) -> DOMAIN mapping] :
        \A l \in Labels(mapping) : mapping[r[l]] = l}

\* the strings astype(int) converts, and their values
NumericStrings == {"0", "7"}
IntOfString(str) == IF str = "0" THEN 0 ELSE 7

\* one element of multistate_string_to_integer: a label becomes its code,
\* a masked element the fill value, and astype(int) converts what is left
StringCellToInteger(cell, mapping) ==
    LET codes == {c \in DOMAIN mapping : mapping[c] = cell.value}
        replaced == IF codes # {} THEN CHOOSE c \in codes : \A k \in codes : k <= c
                    ELSE cell.value
    IN  IF cell.mask THEN [exc |-> "none", cell |-> Cell(FillValue, TRUE)]
        ELSE IF codes # {} THEN [exc |-> "none", cell |-> Cell(replaced, FALSE)]
        ELSE IF cell.value \in NumericStrings
        THEN [exc |-> "none", cell |-> Cell(IntOfString(cell.value), FALSE)]
        ELSE [exc |-> "ValueError", cell |-> cell]

\* multistate_string_to_integer(string_array, mapping)
multistate_string_to_integer(string_array, mapping) ==
    LET cells == [i \in DOMAIN string_array |->
                     StringCellToInteger(string_array[i], mapping)]
    IN  IF \E i \in DOMAIN cells : cells[i].exc # "none"
        THEN [exc |-> "ValueError", array |-> <<>>]
        ELSE [exc |-> "none", array |-> [i \in DOMAIN cells |-> cells[i].cell]]

\* a label branch that stores code 0 for a label it does not know
setattr_array_UnknownAsZero(mapping, reversed_mapping, shape, value) ==
    IF shape = "mapped" \/ shape = "integer" THEN [exc |-> "none", array |-> value]
    ELSE IF shape = "string" THEN multistate_string_to_integer(value, mapping)
    ELSE [exc |-> "none",
          array |-> [i \in DOMAIN value |->
                        Cell(IF value[i] \in DOMAIN reversed_mapping
                             THEN reversed_mapping[value[i]] ELSE 0, FALSE)]]

\* MultistateDerivedParameterNode.__setattr__('array', value) by the shape
\* of value: a MappedArray, a MaskedArray of dtype int, a MaskedArray of
\* strings, or a list of labels
setattr_array(mapping, reversed_mapping, shape, value) ==
    IF shape = "mapped" \/ shape = "integer" THEN [exc |-> "none", array |-> value]
    ELSE IF shape = "string" THEN multistate_string_to_integer(value, mapping)
    ELSE IF \E i \in DOMAIN value : value[i] \notin DOMAIN reversed_mapping
    THEN [exc |-> "KeyError", array |-> <<>>]
    ELSE [exc |-> "none",
          array |-> [i \in DOMAIN value |->
                        Cell(reversed_mapping[value[i]], FALSE)]]

SeqsUpTo(S, n) == UNION {[1..k -> S] : k \in 0..n}

\* the values assigned, by shape
AssignedValues(shape) ==
    IF shape = "list" THEN SeqsUpTo({"Up", "Down", "On", "Left"}, MaxArray)
    ELSE IF shape = "string"
    THEN SeqsUpTo({Cell(v, m) : v \in {"Up", "7", "x"}, m \in BOOLEAN}, MaxArray)
    ELSE SeqsUpTo({Cell(v, m) : v \in {1, 7}, m \in BOOLEAN}, MaxArray)

\* a __setattr__ that stores a MappedArray with no change
array_values_mapping_KeepsOwn(self_mapping, shape, own_mapping) ==
    IF shape = "mapped" THEN own_mapping ELSE self_mapping

\* the values_mapping of the array __setattr__ stores: a MappedArray is
\* the caller's object and has the node's mapping put in place of its own,
\* the other shapes are wrapped in a new MappedArray built with the node's
\* mapping
array_values_mapping(self_mapping, shape, own_mapping) ==
    IF shape = "mapped" THEN self_mapping ELSE self_mapping

\* MultistateDerivedParameterNode.__setattr__('values_mapping', value):
\* the stored array gets the mapping too (the node has an array once it is
\* constructed)
setattr_values_mapping(n, value) ==
    [n EXCEPT !.array_mapping = value, !.values_mapping = value]

\* the values_mapping a MappedArray has of its own when it is assigned
OwnMappings == { (0 :> "Up") @@ (1 :> "Down"), (7 :> "x") }

\* the mappings assigned to values_mapping
AssignedMappings ==
    ValuesMappings \cup { [c \in {} |-> ""], (0 :> "Up") @@ (7 :> "x") }

\* MultistateDerivedParameterNode(name, values_mapping=...): the array
\* starts empty
NewMultistate(name, mapping) ==
    [kind |-> "multistate", name |-> PlainName(name), frequency |-> PyInt(1),
     offset |-> PyInt(0), items |-> <<>>, values_mapping |-> mapping,
     array |-> <<>>,
     array_mapping |-> array_values_mapping(mapping, "string", mapping)]

\* node.array = value, the first and the second assignment to a node
SetArray ==
    /\ node.kind = "multistate"
    /\ IF ret.op = "none" THEN TRUE ELSE ret.args.nth = 1
    /\ \E shape \in {"mapped", "integer", "string", "list"} :
       \E value \in AssignedValues(shape),
          reversed_mapping \in ReversedMappings(node.values_mapping),
          own_mapping \in IF shape = "mapped" THEN OwnMappings
                          ELSE {node.values_mapping} :
          LET out == setattr_array(node.values_mapping, reversed_mapping,
                                   shape, value) IN
          /\ node' = IF out.exc = "none"
                     THEN [node EXCEPT
                              !.array = out.array,
                              !.array_mapping =
                                  array_values_mapping(node.values_mapping,
                                                       shape, own_mapping)]
                     ELSE node
          /\ ret' = [op |-> "set_array",
                     args |-> [shape |-> shape, value |-> value,
                               nth |-> IF ret.op = "none" THEN 1 ELSE 2],
                     exc |-> out.exc, val |-> PyNone, before |-> node.array]
    /\ UNCHANGED <<heap, res, back, orig>>
    /\ UnchangedRegistry

\* node.values_mapping = value, as the first or the second assignment
SetValuesMapping ==
    /\ node.kind = "multistate"
    /\ IF ret.op = "none" THEN TRUE ELSE ret.args.nth = 1
    /\ \E value \in AssignedMappings :
          /\ node' = setattr_values_mapping(node, value)
          /\ ret' = [op |-> "set_values_mapping",
                     args |-> [shape |-> "mapping", value |-> value,
                               nth |-> IF ret.op = "none" THEN 1 ELSE 2],
                     exc |-> "none", val |-> PyNone, before |-> node.array]
    /\ UNCHANGED <<heap, res, back, orig>>
    /\ UnchangedRegistry

\* node.format_name(replace_values) on a node of class cls
CallFormatName ==
    /\ ret.op = "none"
    /\ \E rvals \in ReplaceValues :
          LET out == format_name(cls, rvals) IN
          ret' = [op |-> "format_name", args |-> [rvals |-> rvals],
                  exc |-> out.exc,
                  val |-> IF out.exc = "none" THEN out.name ELSE PyNone,
                  before |-> <<>>]
    /\ UNCHANGED <<node, heap, res, back, orig>>
    /\ UnchangedRegistry

-----------------------------------------------------------------------------
(* Derivation: Node.get_derived aligns the dependencies to the first        *)
(* available one, calls derive and looks at what derive returned.  A        *)
(* dependency is None or a node: a parameter, a collection with its         *)
(* elements, or an attribute with its value.  The array of a parameter is   *)
(* aligned by library code and is not part of the dependency here.          *)

\* bound on the number of dependencies handed to get_derived
MaxArgs == 2

NotImplemented == [t |-> "notimplemented", n |-> 1, d |-> 1, s |-> ""]

\* a numpy array of k elements returned by derive
PyArray(k) == [t |-> "array", n |-> k, d |-> 1, s |-> ""]

\* the node get_derived returns
SelfNode == [t |-> "node", n |-> 1, d |-> 1, s |-> "self"]

Dependency(kind, rate, elems, value) ==
    [kind |-> kind, frequency |-> rate.frequency, offset |-> rate.offset,
     elems |-> elems, value |-> value]

DependencyRates == { Rate(PyInt(1), PyInt(0)), Rate(PyFloat(2, 1), PyFloat(1, 4)) }

\* the dependencies: parameters, empty and non-empty collections,
\* attributes (no frequency)
Dependencies ==
    { Dependency("param", r, <<>>, PyNone) : r \in DependencyRates }
    \cup { Dependency("kti", r, <<>>, PyNone) : r \in DependencyRates }
    \cup { Dependency("kti", r,
               <<[index |-> PyInt(4), name |-> PlainName("Kpv Node")]>>,
               PyNone) : r \in DependencyRates }
    \cup { Dependency("section", Rate(PyInt(1), PyInt(0)), <<>>, PyNone) }
    \cup { Dependency("attribute", Rate(PyNone, PyNone), <<>>, v) :
               v \in {PyNone, PyStr("G-ABCD")} }

\* the list of available parameter objects: None where a dependency is
\* not available
ArgumentLists ==
    UNION { [1..k -> Dependencies \cup {PyNone}] : k \in 0..MaxArgs }

\* what a derive method can return
DeriveResults ==
    { PyNone, NotImplemented, PyInt(0), PyInt(1), PyBool(FALSE), PyBool(TRUE),
      PyFloat(0, 1), PyStr(""), PyStr("done"), PyList(0), PyList(2),
      PyArray(2) }

\* "a is not None and a.frequency"
IsFirstCandidate(a) ==
    IF a = PyNone THEN FALSE ELSE Truthy(a.frequency)

\* bool(param) of a dependency: a collection is a list, an attribute has
\* __nonzero__, a parameter is an object
ParamTruthy(a) ==
    IF a = PyNone THEN FALSE
    ELSE IF a.kind \in {"section", "kti", "kpv"} THEN Len(a.elems) > 0
    ELSE IF a.kind = "attribute" THEN nonzero(a.value)
    ELSE TRUE

\* param.get_aligned(first_param) of each class of dependency
Dependency_get_aligned(a, first_param) ==
    IF a.kind = "attribute" THEN a
    ELSE IF a.kind = "param"
    THEN [a EXCEPT !.frequency = first_param.frequency,
                   !.offset = first_param.offset]
    ELSE LET n == [kind |-> a.kind, name |-> PlainName("Kpv Node"),
                   frequency |-> a.frequency, offset |-> a.offset,
                   items |-> [i \in DOMAIN a.elems |-> i]]
             h == [i \in DOMAIN a.elems |-> a.elems[i]]
             made == get_aligned(n, h, first_param)
         IN  [a EXCEPT !.frequency = made.node.frequency,
                       !.offset = made.node.offset,
                       !.elems = Contents(made.node, made.heap)]

\* the arguments as get_derived hands them to derive
AlignedArguments(align_to_first_dependency, args) ==
    LET candidates == { n \in DOMAIN args : IsFirstCandidate(args[n]) }
    IN  IF ~align_to_first_dependency \/ candidates = {} THEN args
        ELSE LET i == CHOOSE n \in candidates :
                          \A m \in candidates : n <= m
             IN  [n \in DOMAIN args |->
                     IF ParamTruthy(args[n]) /\ n > i
                     THEN Dependency_get_aligned(args[n], args[i])
                     ELSE args[n]]

\* bool(res) of what derive returned: an array of several elements has no
\* truth value
ResultTruth(result) ==
    IF result.t = "array" /\ result.n > 1 THEN "ValueError"
    ELSE IF result.t = "array" THEN "False"
    ELSE IF Bool(result) THEN "True" ELSE "False"

\* the end of Node.get_derived: res is NotImplemented / elif res / return self
get_derived_outcome(result) ==
    IF result = NotImplemented THEN [exc |-> "NotImplementedError", val |-> PyNone]
    ELSE IF ResultTruth(result) = "ValueError"
    THEN [exc |-> "ValueError", val |-> PyNone]
    ELSE IF ResultTruth(result) = "True"
    THEN [exc |-> "UserWarning", val |-> PyNone]
    ELSE [exc |-> "none", val |-> SelfNode]

\* a deriving node
NewDeriving(align_to_first_dependency) ==
    [kind |-> "derived", name |-> PlainName("Kpv Node"), frequency |-> PyInt(1),
     offset |-> PyInt(0), items |-> <<>>,
     align_to_first_dependency |-> align_to_first_dependency]

\* node.get_derived(args), derive returning result
GetDerived ==
    /\ node.kind = "derived"
    /\ ret.op = "none"
    /\ \E args \in ArgumentLists, result \in DeriveResults :
          LET passed == AlignedArguments(node.align_to_first_dependency, args)
              out == get_derived_outcome(result)
          IN  ret' = [op |-> "get_derived",
                      args |-> [args |-> args, result |-> result],
                      exc |-> out.exc, val |-> out.val, before |-> passed]
    /\ UNCHANGED <<node, heap, res, back, orig>>
    /\ UnchangedRegistry

-----------------------------------------------------------------------------
(* Declared dependencies: get_param_kwarg_names inspects a derive method.   *)
(* A method is what inspect.getargspec reports of it: the names of the      *)
(* positional-or-keyword parameters before the ones with defaults, the      *)
(* defaults in declaration order (here the dependency's name), and whether  *)
(* *args and **kwargs are declared.                                         *)

Method(positional, defaults, varargs, varkw) ==
    [positional |-> positional, defaults |-> defaults,
     varargs |-> varargs, varkw |-> varkw]

\* the derive methods a node class can declare
Methods ==
    { Method(positional, defaults, varargs, varkw) :
        positional \in { <<>>, <<"self">>, <<"self", "x">>, <<"x">> },
        defaults \in UNION { [1..k -> DepNames] : k \in 0..MaxDeps },
        varargs \in BOOLEAN, varkw \in BOOLEAN }

\* get_param_kwarg_names(method)
get_param_kwarg_names(method) ==
    IF method.defaults = <<>>
       \/ method.positional # <<"self">>
       \/ method.varargs
    THEN [exc |-> "ValueError", val |-> <<>>]
    ELSE IF method.varkw
    THEN [exc |-> "NotImplementedError", val |-> <<>>]
    ELSE [exc |-> "none", val |-> method.defaults]

\* cls.get_dependency_names()
get_dependency_names(c) ==
    LET params == get_param_kwarg_names(c.derive)
    IN  IF params.exc # "none" THEN params
        ELSE [exc |-> "none", val |-> [i \in DOMAIN params.val |-> params.val[i]]]

\* Node.__init__ of analysis_engine/node.py: the derive method is not
\* looked at
Node_init(c, name, rate) ==
    [exc |-> "none",
     node |-> [kind |-> "node",
               name |-> IF name.text # "" THEN name ELSE get_name(c),
               frequency |-> rate.frequency, offset |-> rate.offset,
               items |-> <<>>]]

\* Node.__init__ of analysis/node.py: a node must have a dependency
Node_init_analysis(c, name, rate) ==
    LET deps == get_dependency_names(c)
    IN  IF deps.exc # "none" THEN [exc |-> deps.exc, node |-> NoNode]
        ELSE IF deps.val = <<>> THEN [exc |-> "ValueError", node |-> NoNode]
        ELSE Node_init(c, name, rate)

WithDerive(c, method) ==
    [name |-> c.name, verbose |-> c.verbose, NAME_FORMAT |-> c.NAME_FORMAT,
     NAME_VALUES |-> c.NAME_VALUES, derive |-> method]

\* get_param_kwarg_names(cls.derive)
CallGetParamKwargNames ==
    /\ ret.op = "none"
    /\ LET out == get_param_kwarg_names(cls.derive)
       IN  ret' = [op |-> "get_param_kwarg_names", args |-> <<>>,
                   exc |-> out.exc, val |-> out.val, before |-> <<>>]
    /\ UNCHANGED <<cls, node, heap, res, back, orig>>
    /\ UnchangedRegistry

\* cls.get_dependency_names()
CallGetDependencyNames ==
    /\ ret.op = "none"
    /\ LET out == get_dependency_names(cls)
       IN  ret' = [op |-> "get_dependency_names", args |-> <<>>,
                   exc |-> out.exc, val |-> out.val, before |-> <<>>]
    /\ UNCHANGED <<cls, node, heap, res, back, orig>>
    /\ UnchangedRegistry

\* cls(name, frequency, offset) with either module's Node.__init__
Constructed(op, out) ==
    /\ ret.op = "none"
    /\ node' = out.node
    /\ ret' = [op |-> op, args |-> <<>>, exc |-> out.exc, val |-> PyNone,
               before |-> <<>>]
    /\ UNCHANGED <<cls, heap, res, back, orig>>
    /\ UnchangedRegistry

ConstructNode ==
    \E rate \in DependencyRates :
        Constructed("Node", Node_init(cls, PlainName(""), rate))

ConstructNodeAnalysis ==
    \E rate \in DependencyRates :
        Constructed("analysis.Node",
                    Node_init_analysis(cls, PlainName(""), rate))

-----------------------------------------------------------------------------
(* Shortcuts that create KPVs and KTIs from an array and slices.  An array  *)
(* is a sequence; position p of the array (counted from 0, as Python does)  *)
(* is element p + 1 of the sequence.  A slice has step None.                *)

\* bound on the length of an array
MaxSamples == 4

\* bound on the number of slices or phase sections handed to a shortcut
MaxSlices == 2

\* the outcome a loop starts from, and the outcome of a call that
\* returns None
Started(n, h) == Returned(n, h, PyNone)
Finished(out) == [out EXCEPT !.val = PyNone]

\* a slice bound as array[s] applies it to an array of n elements
ClampBound(b, n) ==
    IF b < 0 THEN (IF n + b < 0 THEN 0 ELSE n + b)
    ELSE IF b > n THEN n ELSE b

SliceLow(s, n)  == IF IsNone(s.start) THEN 0 ELSE ClampBound(s.start.n, n)
SliceHigh(s, n) == IF IsNone(s.stop) THEN n ELSE ClampBound(s.stop.n, n)

\* the positions array[s] selects, in order
SlicePositions(s, n) ==
    LET lo == SliceLow(s, n)
        hi == SliceHigh(s, n)
    IN  [k \in 1..(IF hi > lo THEN hi - lo ELSE 0) |-> lo + k - 1]

\* array[s]
SliceOf(array, s) ==
    LET at == SlicePositions(s, Len(array))
    IN  [k \in DOMAIN at |-> array[at[k] + 1]]

\* np.ma.concatenate([array[s] for s in slices]), as the positions of the
\* original array the joined elements come from
RECURSIVE JoinedPositions(_, _)
JoinedPositions(slices, n) ==
    IF slices = <<>> THEN <<>>
    ELSE SlicePositions(Head(slices), n) \o JoinedPositions(Tail(slices), n)

\* the loop of create_kpv_from_slices that finds where the joined index is
\* in the original array
RECURSIVE OriginalIndex(_, _, _)
OriginalIndex(slices, n, index) ==
    IF slices = <<>> THEN index
    ELSE LET start == PyOr(Head(slices).start, PyInt(0)).n
             stop == PyOr(Head(slices).stop, PyInt(n)).n
             slice_duration == stop - start
         IN  IF index < slice_duration THEN index + start
             ELSE OriginalIndex(Tail(slices), n, index - slice_duration)

\* KeyPointValueNode.create_kpv_from_slices(array, slices, function), the
\* function returning (index, value) for the joined array
create_kpv_from_slices(n, h, array_len, slices, index, value) ==
    IF slices = <<>> THEN Returned(n, h, PyNone)
    ELSE IF IsNone(index) THEN Returned(n, h, PyNone)
    ELSE Finished(create_kpv(n, h,
                      PyInt(OriginalIndex(slices, array_len, index.n)),
                      value, NoValues))

\* the slices handed to create_kpv_from_slices: open, inside the array and
\* reaching past its end
JoinedSlices ==
    { Slice(start, stop) :
        start \in {PyNone, PyInt(0), PyInt(2)},
        stop \in {PyNone, PyInt(3), PyInt(MaxSamples + 2)} }

SliceLists(S) == UNION { [1..k -> S] : k \in 0..MaxSlices }

\* what the function can return for a joined array: a position of it and a
\* value, or no index
FunctionResults(joined_len) ==
    { PyInt(j) : j \in 0..(joined_len - 1) } \cup {PyNone}

\* a call of a shortcut on the new, empty node
Shortcut(op, args, out) ==
    /\ ret.op = "none"
    /\ node' = out.node
    /\ heap' = out.heap
    /\ orig' = Snapshot(out.node, out.heap)
    /\ ret' = [op |-> op, args |-> args, exc |-> out.exc, val |-> out.val,
               before |-> Contents(node, heap)]
    /\ UNCHANGED <<res, back>>
    /\ UnchangedRegistry

\* node.create_kpv_from_slices(array, slices, function)
CreateKpvFromSlices ==
    /\ node.kind = "kpv"
    /\ ret.op = "none"
    /\ \E array_len \in 1..MaxSamples, slices \in SliceLists(JoinedSlices) :
       \E index \in FunctionResults(Len(JoinedPositions(slices, array_len))) :
          Shortcut("create_kpv_from_slices",
                   [array_len |-> array_len, slices |-> slices,
                    index |-> index, value |-> PyInt(5)],
                   create_kpv_from_slices(node, heap, array_len, slices,
                                          index, PyInt(5)))

\* the identity of the array object the caller hands to a shortcut
ArrayId == 0

\* masked arrays of up to MaxSamples elements: element p holds the value p
MaskedArrays ==
    UNION { { [p \in 1..k |-> Cell(p - 1, mask[p])] : mask \in [1..k -> BOOLEAN] } :
            k \in 1..MaxSamples }

\* array[slice_] = np.ma.masked
MaskSlice(array, s) ==
    LET lo == SliceLow(s, Len(array))
        hi == SliceHigh(s, Len(array))
    IN  [p \in DOMAIN array |->
            IF lo <= p - 1 /\ p - 1 < hi THEN Cell(array[p].value, TRUE)
            ELSE array[p]]

\* the loop of create_kpv_outside_slices over the slices to exclude
RECURSIVE MaskSlices(_, _)
MaskSlices(array, slices) ==
    IF slices = <<>> THEN array
    ELSE MaskSlices(MaskSlice(array, Head(slices)), Tail(slices))

\* KeyPointValueNode.create_kpv_outside_slices(array, slices, function):
\* the array is the caller's object, written to in place
create_kpv_outside_slices(n, h, array, slices, index, value) ==
    Finished(create_kpv(n, h @@ (ArrayId :> [array |-> MaskSlices(array, slices)]),
                        index, value, NoValues))

ExcludedSlices ==
    { Slice(PyInt(0), PyInt(2)), Slice(PyInt(1), PyInt(3)),
      Slice(PyNone, PyInt(1)) }

\* node.create_kpv_outside_slices(array, slices, function)
CreateKpvOutsideSlices ==
    /\ node.kind = "kpv"
    /\ ret.op = "none"
    /\ \E array \in MaskedArrays, slices \in SliceLists(ExcludedSlices) :
       \E index \in FunctionResults(Len(array)) :
          Shortcut("create_kpv_outside_slices",
                   [array |-> array, slices |-> slices, index |-> index,
                    value |-> PyInt(5)],
                   create_kpv_outside_slices(node, heap, array, slices,
                                             index, PyInt(5)))

\* a Section as a shortcut receives it, and a bare slice
SectionOf(section_slice, start_edge, stop_edge) ==
    [is_section |-> TRUE, slice |-> section_slice,
     start_edge |-> start_edge, stop_edge |-> stop_edge]

BareSlice(section_slice) ==
    [is_section |-> FALSE, slice |-> section_slice,
     start_edge |-> PyNone, stop_edge |-> PyNone]

\* KeyPointValueNode._get_slices: the slice of each Section, a slice as it is
get_slices(slices) ==
    [k \in DOMAIN slices |-> BareSlice(slices[k].slice)]

\* the body of the loop of create_kpvs_from_slice_durations for one
\* element of the list, after the outcome so far
SliceDuration(so_far, slice_, min_duration, mark) ==
    LET start == IF slice_.is_section THEN slice_.start_edge
                 ELSE slice_.slice.start
        stop == IF slice_.is_section THEN slice_.stop_edge
                ELSE slice_.slice.stop
        duration == PySub(stop, start)
        index == IF mark = "start" THEN start
                 ELSE IF mark = "end" THEN stop
                 ELSE PyDiv(PyAdd(stop, start), PyFloat(2, 1))
    IN  IF so_far.exc # "none" THEN so_far
        ELSE IF ~PyLess(min_duration, duration) THEN so_far
        ELSE IF mark \notin {"start", "end", "midpoint"}
        THEN Raised(so_far.node, so_far.heap, "ValueError")
        ELSE create_kpv(so_far.node, so_far.heap, index, duration, NoValues)

RECURSIVE SliceDurations(_, _, _, _)
SliceDurations(so_far, slices, min_duration, mark) ==
    IF slices = <<>> THEN Finished(so_far)
    ELSE SliceDurations(SliceDuration(so_far, Head(slices), min_duration, mark),
                        Tail(slices), min_duration, mark)

\* KeyPointValueNode.create_kpvs_from_slice_durations(slices, min_duration,
\* mark)
create_kpvs_from_slice_durations(n, h, slices, min_duration, mark) ==
    SliceDurations(Started(n, h), get_slices(slices), min_duration, mark)

\* the intervals: bare slices, and Sections whose fractional edges differ
\* from their slice's integer bounds
DurationSlices ==
    { BareSlice(Slice(PyInt(2), PyInt(5))),
      BareSlice(Slice(PyInt(3), PyInt(4))),
      SectionOf(Slice(PyInt(2), PyInt(5)), PyInt(2), PyInt(5)),
      SectionOf(Slice(PyInt(2), PyInt(6)), PyFloat(3, 2), PyFloat(21, 4)) }

MinDurations == { PyFloat(0, 1), PyFloat(2, 1), PyFloat(7, 2) }

Marks == { "start", "midpoint", "end", "middle" }

\* node.create_kpvs_from_slice_durations(slices, min_duration, mark)
CreateKpvsFromSliceDurations ==
    /\ node.kind = "kpv"
    /\ ret.op = "none"
    /\ \E slices \in SliceLists(DurationSlices),
          min_duration \in MinDurations, mark \in Marks :
          Shortcut("create_kpvs_from_slice_durations",
                   [slices |-> slices, min_duration |-> min_duration,
                    mark |-> mark],
                   create_kpvs_from_slice_durations(node, heap, slices,
                                                    min_duration, mark))

\* np.ma.clump_unmasked(np.ma.masked_not_equal(array, state)) from the
\* element p on: the maximal runs of the state, each as the positions
\* [start, stop) it covers, in order
RECURSIVE StatePeriods(_, _, _)
StatePeriods(array, state, p) ==
    IF p > Len(array) THEN <<>>
    ELSE IF array[p] # state THEN StatePeriods(array, state, p + 1)
    ELSE LET last == CHOOSE q \in p..Len(array) :
                        /\ \A k \in p..q : array[k] = state
                        /\ (q = Len(array) \/ array[q + 1] # state)
         IN  <<[start |-> p - 1, stop |-> last]>>
             \o StatePeriods(array, state, last + 1)

\* the body of the loop of find_events for one event, after the outcome so
\* far
EventKpv(so_far, event, hz, min_duration) ==
    LET index == PyInt(event.start)
        value == PyDiv(PyInt(event.stop - event.start), hz)
    IN  IF so_far.exc # "none" THEN so_far
        ELSE IF PyLess(value, min_duration) THEN so_far
        ELSE create_kpv(so_far.node, so_far.heap, index, value, NoValues)

RECURSIVE EventKpvs(_, _, _, _)
EventKpvs(so_far, events, hz, min_duration) ==
    IF events = <<>> THEN Finished(so_far)
    ELSE EventKpvs(EventKpv(so_far, Head(events), hz, min_duration),
                   Tail(events), hz, min_duration)

\* find_events(state, subarray, start_index) of create_kpvs_where_state
find_events(so_far, state, subarray, start_index, hz, min_duration) ==
    EventKpvs(so_far, StatePeriods(subarray, state, 1), hz, min_duration)

\* the loop of create_kpvs_where_state over the sections of the phase
RECURSIVE WhereStatePhases(_, _, _, _, _, _)
WhereStatePhases(so_far, state, array, phase, hz, min_duration) ==
    IF phase = <<>> THEN Finished(so_far)
    ELSE WhereStatePhases(
             find_events(so_far, state, SliceOf(array, Head(phase)),
                         PyOr(Head(phase).start, PyInt(0)), hz, min_duration),
             state, array, Tail(phase), hz, min_duration)

\* KeyPointValueNode.create_kpvs_where_state(state, array, hz, phase,
\* min_duration); phase.given is "phase is not None"
create_kpvs_where_state(n, h, state, array, hz, phase, min_duration) ==
    IF ~phase.given
    THEN find_events(Started(n, h), state, array, PyInt(0), hz, min_duration)
    ELSE WhereStatePhases(Started(n, h), state, array, phase.slices, hz,
                          min_duration)

\* multi-state arrays of up to MaxSamples samples, nothing masked
StateArrays == UNION { [1..k -> {"On", "Off"}] : k \in 1..MaxSamples }

\* the slices of the sections of a phase
PhaseSlices == { Slice(PyInt(0), PyInt(2)), Slice(PyInt(1), PyInt(4)) }

\* no phase, or the sections of a phase
Phases ==
    { [given |-> FALSE, slices |-> <<>>] }
    \cup { [given |-> TRUE, slices |-> slices] :
              slices \in SliceLists(PhaseSlices) }

SampleRates == { PyInt(1), PyInt(2), PyFloat(2, 1) }

\* node.create_kpvs_where_state(state, array, hz, phase, min_duration)
CreateKpvsWhereState ==
    /\ node.kind = "kpv"
    /\ ret.op = "none"
    /\ \E array \in StateArrays, hz \in SampleRates, phase \in Phases,
          min_duration \in {PyFloat(0, 1), PyFloat(1, 1)} :
          Shortcut("create_kpvs_where_state",
                   [state |-> "On", array |-> array, hz |-> hz,
                    phase |-> phase, min_duration |-> min_duration],
                   create_kpvs_where_state(node, heap, "On", array, hz,
                                           phase, min_duration))

\* self.create_kti(index) after the outcome so far, when the condition
\* holds
KtiWhen(so_far, condition, index) ==
    IF so_far.exc # "none" \/ ~condition THEN so_far
    ELSE create_kti(so_far.node, so_far.heap, index, NoValues)

\* the body of the loop of state_changes with the KTIs positioned without
\* the start of the scanned slice
PeriodKtis_Relative(so_far, period, change, slice_start, slice_len) ==
    KtiWhen(KtiWhen(so_far,
                    change \in {"entering", "entering_and_leaving"}
                        /\ period.start > 0,
                    PySub(PyInt(period.start), PyFloat(1, 2))),
            change \in {"leaving", "entering_and_leaving"}
                /\ period.stop < slice_len,
            PySub(PyInt(period.stop), PyFloat(1, 2)))

\* the body of the loop of state_changes for one period of the state,
\* after the outcome so far
PeriodKtis(so_far, period, change, slice_start, slice_len) ==
    LET start == period.start + slice_start
        stop == period.stop + slice_start
    IN  KtiWhen(KtiWhen(so_far,
                        change \in {"entering", "entering_and_leaving"}
                            /\ period.start > 0,
                        PySub(PyInt(start), PyFloat(1, 2))),
                change \in {"leaving", "entering_and_leaving"}
                    /\ period.stop < slice_len,
                PySub(PyInt(stop), PyFloat(1, 2)))

RECURSIVE PeriodsKtis(_, _, _, _, _)
PeriodsKtis(so_far, periods, change, slice_start, slice_len) ==
    IF periods = <<>> THEN Finished(so_far)
    ELSE PeriodsKtis(PeriodKtis(so_far, Head(periods), change, slice_start,
                                slice_len),
                     Tail(periods), change, slice_start, slice_len)

\* SliceOf(array, _slice) scanned for the state
ScanForChanges(so_far, state, scanned, change, slice_start) ==
    PeriodsKtis(so_far, StatePeriods(scanned, state, 1), change, slice_start,
                Len(scanned))

\* state_changes(state, array, change, _slice) of
\* create_ktis_on_state_change; the slice has an integer start
state_changes(so_far, state, array, change, _slice) ==
    ScanForChanges(so_far, state, SliceOf(array, _slice), change,
                   _slice.start.n)

\* the loop of create_ktis_on_state_change over the sections of the phase
RECURSIVE StateChangePhases(_, _, _, _, _)
StateChangePhases(so_far, state, array, change, phase) ==
    IF phase = <<>> THEN Finished(so_far)
    ELSE StateChangePhases(
             state_changes(so_far, state, array, change, Head(phase)),
             state, array, change, Tail(phase))

\* KeyTimeInstanceNode.create_ktis_on_state_change(state, array, change,
\* phase)
create_ktis_on_state_change(n, h, state, array, change, phase) ==
    IF ~phase.given
    THEN state_changes(Started(n, h), state, array, change,
                       Slice(PyInt(0), PyInt(Len(array))))
    ELSE StateChangePhases(Started(n, h), state, array, change, phase.slices)

Changes == { "entering", "leaving", "entering_and_leaving" }

\* node.create_ktis_on_state_change(state, array, change, phase)
CreateKtisOnStateChange ==
    /\ node.kind = "kti"
    /\ ret.op = "none"
    /\ \E array \in StateArrays, change \in Changes, phase \in Phases :
          Shortcut("create_ktis_on_state_change",
                   [state |-> "On", array |-> array, change |-> change,
                    phase |-> phase],
                   create_ktis_on_state_change(node, heap, "On", array,
                                               change, phase))

-----------------------------------------------------------------------------
(* Specifications                                                           *)

IdleRegistry == mgr = CHOOSE m \in Managers : TRUE
IdleCall     == opcall = NoCall
IdleCollection ==
    /\ cls = PlainClass
    /\ node = NoNode
    /\ heap = EmptyHeap
    /\ res = NoNode
    /\ back = NoNode
    /\ orig = Snapshot(NoNode, EmptyHeap)
    /\ ret = NoRet

\* operability: a manager snapshot, then calls of can_operate / operational
InitOperate ==
    /\ mgr \in Managers
    /\ opcall = NoCall
    /\ IdleCollection

NextOperate ==
    \/ CallCanOperate
    \/ CallOperational
    \/ CallKeys
    \/ CallOperationalCombinations
    \/ CallBoth

SpecOperate == InitOperate /\ [][NextOperate]_vars

\* a newly constructed, empty collection node
InitCollection(kinds, classes, rates) ==
    /\ IdleRegistry
    /\ IdleCall
    /\ cls \in classes
    /\ \E kind \in kinds, rate \in rates :
          node = NewNode(kind, PlainName(""), rate.frequency, rate.offset)
    /\ heap = EmptyHeap
    /\ res = NoNode
    /\ back = NoNode
    /\ orig = Snapshot(node, heap)
    /\ ret = NoRet

\* alignment: a collection is filled, aligned, aligned back, and the
\* result's elements are written to
InitAlign == InitCollection({"section", "kti", "kpv"}, {PlainClass}, Rates)

NextAlign ==
    \/ CreateSection
    \/ CreateKti(AlignedIndexes, {NoValues})
    \/ CreateKpv(AlignedIndexes, {PyInt(5)}, {NoValues})
    \/ GetAligned
    \/ AlignBack
    \/ SetResultIndex

SpecAlign == InitAlign /\ [][NextAlign]_vars

\* creation: any sequence of create_kpv / create_kti calls on a node of
\* any of the classes
InitCreate ==
    InitCollection({"kti", "kpv"}, NameClasses, {Rate(PyInt(1), PyInt(0))})

NextCreate ==
    \/ CreateKpv(Indexes, Values, ReplaceValues)
    \/ CreateKti(Indexes, ReplaceValues)

SpecCreate == InitCreate /\ [][NextCreate]_vars

\* names: a node class, then names() on it
InitNames ==
    /\ IdleRegistry
    /\ IdleCall
    /\ cls \in AllNameClasses
    /\ node = NoNode
    /\ heap = EmptyHeap
    /\ res = NoNode
    /\ back = NoNode
    /\ orig = Snapshot(NoNode, EmptyHeap)
    /\ ret = NoRet

NextNames ==
    \/ CallNames
    \/ CallFormatName

SpecNames == InitNames /\ [][NextNames]_vars

\* queries: a collection is filled and queried
InitQuery ==
    InitCollection({"section", "kti", "kpv"}, {QueryClass},
                   {Rate(PyInt(1), PyInt(0))})

NextQuery ==
    \/ CreateSectionOf(QuerySections)
    \/ CreateKti(QueryElementIndexes, QueryReplacements)
    \/ CreateKpv(QueryElementIndexes, {PyInt(5)}, QueryReplacements)
    \/ GetFirstOrLast
    \/ GetNextOrPrevious

SpecQuery == InitQuery /\ [][NextQuery]_vars

\* attributes: an Attribute of any value or a FlightAttributeNode whose
\* value is set, then its truth value is taken
InitAttribute ==
    /\ IdleRegistry
    /\ IdleCall
    /\ cls = PlainClass
    /\ \E name \in AttributeNames :
          \/ \E value \in AttributeValues : node = NewAttribute(name, value)
          \/ node = NewFlightAttributeNode(name)
    /\ heap = EmptyHeap
    /\ res = NoNode
    /\ back = NoNode
    /\ orig = Snapshot(NoNode, EmptyHeap)
    /\ ret = NoRet

NextAttribute ==
    \/ SetFlightAttribute
    \/ CallNonzero

SpecAttribute == InitAttribute /\ [][NextAttribute]_vars

\* multi-state parameters: a node with a values_mapping, then assignments
\* to its array
InitMultistate ==
    /\ IdleRegistry
    /\ IdleCall
    /\ cls = PlainClass
    /\ \E mapping \in ValuesMappings : node = NewMultistate("Gear", mapping)
    /\ heap = EmptyHeap
    /\ res = NoNode
    /\ back = NoNode
    /\ orig = Snapshot(NoNode, EmptyHeap)
    /\ ret = NoRet

NextMultistate == SetArray

SpecMultistate == InitMultistate /\ [][NextMultistate]_vars

\* derivation: a deriving node, then get_derived on a list of dependencies
InitDerive ==
    /\ IdleRegistry
    /\ IdleCall
    /\ cls = PlainClass
    /\ \E a \in BOOLEAN : node = NewDeriving(a)
    /\ heap = EmptyHeap
    /\ res = NoNode
    /\ back = NoNode
    /\ orig = Snapshot(NoNode, EmptyHeap)
    /\ ret = NoRet

NextDerive == GetDerived

SpecDerive == InitDerive /\ [][NextDerive]_vars

\* declared dependencies: a node class with a derive method, then one of
\* the calls that inspect it, or the construction of a node
InitSignature ==
    /\ IdleRegistry
    /\ IdleCall
    /\ \E method \in Methods : cls = WithDerive(PlainClass, method)
    /\ node = NoNode
    /\ heap = EmptyHeap
    /\ res = NoNode
    /\ back = NoNode
    /\ orig = Snapshot(NoNode, EmptyHeap)
    /\ ret = NoRet

NextSignature ==
    \/ CallGetParamKwargNames
    \/ CallGetDependencyNames
    \/ ConstructNode
    \/ ConstructNodeAnalysis

SpecSignature == InitSignature /\ [][NextSignature]_vars

\* sections: create_section with every combination of name, begin and end
InitSection ==
    InitCollection({"section"}, {PlainClass}, {Rate(PyInt(1), PyInt(0))})

NextSection == CreateSectionOf(EdgeCalls)

SpecSection == InitSection /\ [][NextSection]_vars

\* shortcuts: a new key point value or key time instance node, then one
\* call of a shortcut that creates its elements from an array
InitShortcut ==
    InitCollection({"kpv", "kti"}, {PlainClass}, {Rate(PyInt(1), PyInt(0))})

NextShortcut ==
    \/ CreateKpvFromSlices
    \/ CreateKpvOutsideSlices
    \/ CreateKpvsFromSliceDurations
    \/ CreateKpvsWhereState
    \/ CreateKtisOnStateChange

SpecShortcut == InitShortcut /\ [][NextShortcut]_vars

\* multi-state parameters: assignments to the array and to values_mapping,
\* in any order
InitMapping == InitMultistate

NextMapping ==
    \/ SetArray
    \/ SetValuesMapping

SpecMapping == InitMapping /\ [][NextMapping]_vars

Init == InitOperate
Next == NextOperate
Spec == SpecOperate

-----------------------------------------------------------------------------
(* Operability claims, under SpecOperate                                    *)

\* C1: for a class that keeps the default can_operate and any set of
\* available names, can_operate(available) is true if and only if every
\* name of get_dependency_names() is in available.
C1_CanOperateIffAllAvailable ==
    opcall.op = "can_operate" =>
        (opcall.result <=>
            \A i \in DOMAIN opcall.klass.deps :
                opcall.klass.deps[i] \in opcall.available)

\* C1 witness: a class with two different dependencies, one of them missing
C1_Witness ==
    /\ opcall.op = "can_operate"
    /\ Len(opcall.klass.deps) = 2
    /\ opcall.klass.deps[1] \in opcall.available
    /\ opcall.klass.deps[2] \notin opcall.available
    /\ ~opcall.result

AttributeKeys(m) == DOMAIN m.aircraft_info \cup DOMAIN m.achieved_flight_record

AttributesSet(m) ==
    {k \in DOMAIN m.aircraft_info : m.aircraft_info[k] # PyNone}
        \cup {k \in DOMAIN m.achieved_flight_record :
                  m.achieved_flight_record[k] # PyNone}

\* what operational returns when the names in always are taken as
\* available unconditionally
OperationalIs(always) ==
    opcall.op = "operational" =>
        /\ opcall.name \in always => opcall.result = TRUE
        /\ opcall.name \notin always /\ opcall.name \in DOMAIN mgr.derived_nodes
              => opcall.result =
                     can_operate(mgr.derived_nodes[opcall.name], opcall.available)
        /\ opcall.name \notin always /\ opcall.name \notin DOMAIN mgr.derived_nodes
              => opcall.result = FALSE

\* C2 as claimed: operational(name, available) is True for every name in
\* lfl, every key of aircraft_info or achieved_flight_record and 'root';
\* for another name that is a key of derived_nodes it is that class's
\* can_operate(available); for any other name it is False.
C2_OperationalAsClaimed ==
    OperationalIs(mgr.lfl \cup AttributeKeys(mgr) \cup {"root"})

\* C2 amended: operational(name, available) is True for every name in lfl,
\* every key of aircraft_info or achieved_flight_record whose value is not
\* None, 'root' and 'Start Datetime'; for another name that is a key of
\* derived_nodes it is that class's can_operate(available); for any other
\* name it is False.
C2_OperationalAmended ==
    OperationalIs(mgr.lfl \cup AttributesSet(mgr) \cup {"root", "Start Datetime"})

\* C2 witness: an attribute key whose value is None, registered as a derived
\* node that cannot operate
C2_Witness ==
    /\ opcall.op = "operational"
    /\ opcall.name \in DOMAIN mgr.aircraft_info
    /\ mgr.aircraft_info[opcall.name] = PyNone
    /\ opcall.name \in DOMAIN mgr.derived_nodes
    /\ opcall.result = FALSE

-----------------------------------------------------------------------------
(* Alignment claims, under SpecAlign                                        *)

\* (i * (target.frequency / self.frequency))
\*     + (self.offset - target.offset) * target.frequency, in exact arithmetic
Mapped(i, self, target) ==
    RatAdd(RatMul(i, RatDiv(target.frequency, self.frequency)),
           RatMul(RatSub(self.offset, target.offset), target.frequency))

\* the index of a KTI / KPV, or the two edges of a Section
Positions(e) ==
    IF "index" \in DOMAIN e THEN <<e.index>> ELSE <<e.start_edge, e.stop_edge>>

SamePositions(a, b) ==
    /\ Len(a) = Len(b)
    /\ \A i \in DOMAIN a :
          /\ Len(Positions(a[i])) = Len(Positions(b[i]))
          /\ \A k \in DOMAIN Positions(a[i]) :
                PyEq(Positions(a[i])[k], Positions(b[i])[k])

\* C3 as claimed: get_aligned(target) maps every index or edge i of the
\* source to (i * (target.frequency / self.frequency))
\* + (self.offset - target.offset) * target.frequency, for every pair of
\* positive frequencies, integer-valued ones included; a None edge stays None.
C3_AlignedIndexFormula ==
    ret.op = "get_aligned" =>
        /\ Len(res.items) = Len(node.items)
        /\ \A i \in DOMAIN node.items :
              LET src == Positions(heap[node.items[i]])
                  dst == Positions(heap[res.items[i]])
              IN  \A k \in DOMAIN src :
                     IF IsNone(src[k]) THEN IsNone(dst[k])
                     ELSE /\ IsNumber(dst[k])
                          /\ PyEq(dst[k], Mapped(src[k], node, ret.args.param))

\* C4 as claimed: aligning a collection to another node's frequency and
\* offset and the result back to its own recovers the index (the edges) of
\* every element, for every pair of frequencies and offsets.
C4_RoundTripRecovers ==
    ret.op = "align_back" /\ ret.args.pristine =>
        SamePositions(Contents(back, heap), Contents(node, heap))

SameSlice(a, b) == PyEq(a.start, b.start) /\ PyEq(a.stop, b.stop)

SameElement(a, b) ==
    /\ DOMAIN a = DOMAIN b
    /\ a.name = b.name
    /\ "index" \in DOMAIN a => PyEq(a.index, b.index)
    /\ "value" \in DOMAIN a => PyEq(a.value, b.value)
    /\ "slice" \in DOMAIN a => SameSlice(a.slice, b.slice)
    /\ "start_edge" \in DOMAIN a =>
          PyEq(a.start_edge, b.start_edge) /\ PyEq(a.stop_edge, b.stop_edge)

\* C5 as claimed: get_aligned(target) with the source's own frequency and
\* offset returns the same elements in the same order, with equal names,
\* indices, values, slices and edges, for any Sections.
C5_SameRateIsIdentity ==
    /\ ret.op = "get_aligned"
    /\ PyEq(ret.args.param.frequency, node.frequency)
    /\ PyEq(ret.args.param.offset, node.offset)
    => /\ Len(res.items) = Len(node.items)
       /\ \A i \in DOMAIN node.items :
             SameElement(heap[res.items[i]], heap[node.items[i]])

\* C6: get_aligned never mutates its source: through any sequence of
\* get_aligned calls and of writes to the elements of their results, the
\* source keeps its length, frequency and offset and every element its
\* contents; no element of a result is an element of the source.
C6_SourceNotMutated ==
    /\ Snapshot(node, heap) = orig
    /\ Ids(res) \cap Ids(node) = {}
    /\ Ids(back) \cap Ids(node) = {}
    /\ Ids(back) \cap Ids(res) = {}
    /\ ret.op \in {"get_aligned", "align_back", "set_index"} =>
          Contents(node, heap) = ret.before

\* C6 witness: an element of the result of a non-empty source was written to
C6_Witness ==
    /\ ret.op = "set_index"
    /\ node.items # <<>>
    /\ heap[res.items[ret.args.i]].index = NewIndex
    /\ heap[node.items[ret.args.i]].index # NewIndex

-----------------------------------------------------------------------------
(* Creation claims, under SpecCreate                                        *)

Rejected(index, value) ==
    \/ IsNone(index)
    \/ IsNone(value)
    \/ value = Masked
    \/ IsInf(value)
    \/ IsNaN(value)

LeftUnchanged == Contents(node, heap) = ret.before

\* one KeyPointValue with that index and float(value) added at the end
OneKpvAppended ==
    LET now == Contents(node, heap) IN
    /\ Len(now) = Len(ret.before) + 1
    /\ SubSeq(now, 1, Len(ret.before)) = ret.before
    /\ now[Len(now)].index = ret.args.index
    /\ now[Len(now)].value.t = "float"
    /\ PyEq(now[Len(now)].value, ret.args.value)
    /\ ret.val = now[Len(now)]

ReturnedNone == ret.exc = "none" /\ ret.val = PyNone

\* C7 as claimed: create_kpv(index, value) returns None without raising and
\* leaves the collection unchanged when index is None or value is None,
\* masked, infinite or NaN; otherwise it appends exactly one KeyPointValue
\* with that index and float(value) at the end.
C7_CreateKpvAsClaimed ==
    ret.op = "create_kpv" =>
        IF Rejected(ret.args.index, ret.args.value)
        THEN ReturnedNone /\ LeftUnchanged
        ELSE ret.exc = "none" /\ OneKpvAppended

\* C7 amended: create_kpv returns None without raising and leaves the
\* collection unchanged when index is None or value is None, masked,
\* infinite or NaN; when index and value are valid and the replace values
\* format to one of names(), it appends exactly one KeyPointValue with that
\* index and float(value) at the end, earlier entries unchanged; when they
\* do not, format_name raises and the collection is unchanged.
C7_CreateKpvAmended ==
    ret.op = "create_kpv" =>
        IF Rejected(ret.args.index, ret.args.value)
        THEN ReturnedNone /\ LeftUnchanged
        ELSE LET f == Format(cls.NAME_FORMAT, ret.args.rvals)
                 named == \/ DOMAIN ret.args.rvals = {} /\ cls.NAME_FORMAT = NoFormat
                          \/ f.exc = "none" /\ f.name \in SeqToSet(names(cls))
             IN  IF named THEN ret.exc = "none" /\ OneKpvAppended
                 ELSE ret.exc \in {"KeyError", "TypeError", "ValueError"}
                      /\ LeftUnchanged

\* C7 witness: a valid KPV appended behind an earlier one
C7_Witness ==
    /\ ret.op = "create_kpv"
    /\ ~Rejected(ret.args.index, ret.args.value)
    /\ ret.exc = "none"
    /\ ret.before # <<>>
    /\ Len(node.items) = Len(ret.before) + 1

\* C8: create_kti(index=None) raises ValueError and leaves the collection
\* unchanged; no KeyTimeInstance with a None index is ever in a collection
\* filled by create_kti.
C8_CreateKtiNoneIndex ==
    /\ ret.op = "create_kti" /\ IsNone(ret.args.index) =>
          ret.exc = "ValueError" /\ LeftUnchanged
    /\ node.kind = "kti" =>
          \A i \in DOMAIN node.items : ~IsNone(heap[node.items[i]].index)

\* C8 witness: create_kti(None) on a collection that holds a KTI
C8_Witness ==
    /\ ret.op = "create_kti"
    /\ IsNone(ret.args.index)
    /\ ret.exc = "ValueError"
    /\ node.items # <<>>

-----------------------------------------------------------------------------
(* Naming claims, under SpecNames                                           *)

NameValueKeys(c) == {c.NAME_VALUES[i].key : i \in DOMAIN c.NAME_VALUES}

OptionsOf(c, key) ==
    UNION {SeqToSet(c.NAME_VALUES[i].vals) :
               i \in {j \in DOMAIN c.NAME_VALUES : c.NAME_VALUES[j].key = key}}

\* the Cartesian product of the option lists: one choice for each key
Combinations(c) ==
    {f \in [NameValueKeys(c) -> UNION {OptionsOf(c, k) : k \in NameValueKeys(c)}] :
        \A k \in NameValueKeys(c) : f[k] \in OptionsOf(c, k)}

\* NAME_FORMAT with a combination substituted
Substituted(c, f) ==
    [text |-> c.NAME_FORMAT.text,
     pieces |-> [i \in DOMAIN c.NAME_FORMAT.keys |->
                    Render(c.NAME_FORMAT.keys[i].conv,
                           f[c.NAME_FORMAT.keys[i].key])]]

\* C10: names() returns exactly one formatted name for each element of the
\* Cartesian product of the NAME_VALUES option lists (NAME_FORMAT with that
\* combination substituted) and nothing else, or the single name get_name()
\* when neither NAME_FORMAT nor NAME_VALUES is configured.
C10_NamesAreTheProduct ==
    ret.op = "names" =>
        IF cls.NAME_FORMAT = NoFormat /\ cls.NAME_VALUES = <<>>
        THEN ret.val = <<PlainName(IF cls.name # "" THEN cls.name
                                   ELSE cls.verbose)>>
        ELSE /\ Len(ret.val) = Cardinality(Combinations(cls))
             /\ \A i \in DOMAIN ret.val :
                   \E f \in Combinations(cls) : ret.val[i] = Substituted(cls, f)
             /\ \A f \in Combinations(cls) :
                   Cardinality({i \in DOMAIN ret.val :
                                    ret.val[i] = Substituted(cls, f)})
                     = Cardinality({g \in Combinations(cls) :
                                        Substituted(cls, g) = Substituted(cls, f)})

\* C10 witness: two option lists of two values each, four different names
C10_Witness ==
    /\ ret.op = "names"
    /\ Len(cls.NAME_VALUES) = 2
    /\ Len(cls.NAME_FORMAT.keys) = 2
    /\ Cardinality(SeqToSet(ret.val)) = 4

\* the keys the template of c substitutes
TemplateKeys(c) == {c.NAME_FORMAT.keys[i].key : i \in DOMAIN c.NAME_FORMAT.keys}

\* the template of c with the values substituted, when every conversion of
\* it can be made
Substitutes(c, rvals) ==
    /\ \A i \in DOMAIN c.NAME_FORMAT.keys :
          /\ c.NAME_FORMAT.keys[i].key \in DOMAIN rvals
          /\ c.NAME_FORMAT.keys[i].conv = "d" =>
                 IsNumber(rvals[c.NAME_FORMAT.keys[i].key])

UsedValues(c, rvals) ==
    [k \in DOMAIN rvals \cap TemplateKeys(c) |-> rvals[k]]

\* C12: keys of the replace values that the node's template does not use
\* are ignored by format_name, for any node, including one with no
\* NAME_FORMAT: with the extra keys the call returns the name it returns
\* without them, and raises no error that it would not raise without them.
C12_ExtraKeysIgnored ==
    ret.op = "format_name" =>
        LET without == format_name(cls, UsedValues(cls, ret.args.rvals))
        IN  /\ ret.exc = without.exc
            /\ without.exc = "none" => ret.val = without.name

\* C12 witness: a template that uses one key is given two, and the name
\* is the one the used key alone gives
C12_Witness ==
    /\ ret.op = "format_name"
    /\ cls.NAME_FORMAT.keys # <<>>
    /\ DOMAIN ret.args.rvals \ TemplateKeys(cls) # {}
    /\ ret.exc = "none"
    /\ ret.val = format_name(cls, UsedValues(cls, ret.args.rvals)).name

-----------------------------------------------------------------------------
(* Query claims, under SpecQuery                                            *)

\* the positions of the elements that pass the filters of the last query
Matching ==
    {i \in DOMAIN ret.before :
        IF node.kind = "section"
        THEN Section_condition(ret.before[i], ret.args.name, ret.args.within)
        ELSE Formatted_condition(ret.before[i], ret.args.name, ret.args.within)}

\* the bound (start or stop) or index the last query goes by
Bound(i) == KeyOf(ret.before[i], ret.args.by)

\* the index of the last query at the collection's own rate
OwnIndex ==
    IF IsNone(ret.args.frequency) THEN ret.args.index
    ELSE RatDiv(RatMul(ret.args.index, node.frequency), ret.args.frequency)

\* C13: get_next(index, use=k) returns, among the sections matching the
\* filters, one whose k bound is the smallest one strictly greater than
\* index, and get_previous(index, use=k) one whose k bound is the largest
\* one strictly less than index, also when sections overlap or are nested;
\* each returns None when there is no such section.  The same holds of the
\* index of key time instances and key point values.
C13_NextIsNearest ==
    (ret.op \in {"get_next", "get_previous"} /\ ret.exc = "none") =>
        LET beyond == {i \in Matching :
                          IF ret.op = "get_next" THEN PyLess(OwnIndex, Bound(i))
                          ELSE PyLess(Bound(i), OwnIndex)}
            nearest == {i \in beyond : \A j \in beyond :
                          IF ret.op = "get_next" THEN ~PyLess(Bound(j), Bound(i))
                          ELSE ~PyLess(Bound(i), Bound(j))}
        IN  IF beyond = {} THEN ret.val = PyNone
            ELSE \E i \in nearest : ret.val = ret.before[i]

\* C14: get_first and get_last return None when no element matches the
\* filters and never raise, for sections, key time instances and key point
\* values and for every combination of name and within_slice (including a
\* name that no element carries).
C14_FirstLastNeverRaise ==
    ret.op \in {"get_first", "get_last"} =>
        /\ ret.exc = "none"
        /\ Matching = {} => ret.val = PyNone

\* the name filter of the last query is not one of the node's names()
UnlistedName ==
    /\ ret.args.name # PlainName("")
    /\ \A i \in DOMAIN names(cls) : names(cls)[i] # ret.args.name

\* C14 as amended: the one exception is a key time instance or key point
\* value collection filtered by a name alone that is not in names(), which
\* raises ValueError.
C14_FirstLastAmended ==
    ret.op \in {"get_first", "get_last"} =>
        IF node.kind # "section" /\ ret.args.within = PyNone /\ UnlistedName
        THEN ret.exc = "ValueError"
        ELSE /\ ret.exc = "none"
             /\ Matching = {} => ret.val = PyNone

\* C14 witness: a non-empty collection is asked for the first element of a
\* valid name that none of its elements carries
C14_Witness ==
    /\ ret.op = "get_first"
    /\ ret.before # <<>>
    /\ ret.args.name # PlainName("")
    /\ ~UnlistedName
    /\ Matching = {}
    /\ ret.exc = "none"
    /\ ret.val = PyNone

-----------------------------------------------------------------------------
(* Attribute claims, under SpecAttribute                                    *)

\* the truth value of v itself: false for None, False, zero and an empty
\* string or list
ValueIsTrue(v) ==
    ~(\/ v = PyNone
      \/ v = PyBool(FALSE)
      \/ v.t \in {"int", "float"} /\ v.n = 0 /\ v.d > 0
      \/ v.t = "str" /\ v.s = ""
      \/ v.t = "list" /\ v.n = 0)

IsZero(v) == v.t \in {"int", "float"} /\ v.n = 0 /\ v.d > 0

\* C15: the truth value of an Attribute or FlightAttributeNode follows the
\* truthiness of its value, except that a value of 0 or False is still
\* truthy; only None and other empty values are falsy.
C15_TruthFollowsValue ==
    ret.op = "nonzero" =>
        ret.val = PyBool(IF IsZero(node.value) \/ node.value = PyBool(FALSE)
                         THEN TRUE
                         ELSE ValueIsTrue(node.value))

\* C15 as amended: only the number 0 is the exception; False is falsy.
C15_TruthAmended ==
    ret.op = "nonzero" =>
        ret.val = PyBool(IF IsZero(node.value) THEN TRUE
                         ELSE ValueIsTrue(node.value))

\* C15 witness: a FlightAttributeNode set to 0 is true
C15_Witness ==
    /\ ret.op = "nonzero"
    /\ node.kind = "flight_attribute"
    /\ node.value = PyInt(0)
    /\ ret.val = PyBool(TRUE)

-----------------------------------------------------------------------------
(* Manager claims, under SpecOperate                                        *)

\* the recorded, derived and scalar-fact names of the manager
StoredNames ==
    mgr.lfl \cup DOMAIN mgr.derived_nodes \cup DOMAIN mgr.aircraft_info
        \cup DOMAIN mgr.achieved_flight_record

EachOnce(q) == \A i, j \in DOMAIN q : q[i] = q[j] => i = j

\* C16: keys() is the union of the lfl names, the derived-node names and
\* the keys of aircraft_info and achieved_flight_record: a name is in the
\* result if and only if it is in one of those sets, and each name appears
\* once.
C16_KeysAreTheUnion ==
    opcall.op = "keys" =>
        /\ {opcall.result[i] : i \in DOMAIN opcall.result} = StoredNames
        /\ EachOnce(opcall.result)

\* C16 as amended: the result also holds 'Start Datetime'.
C16_KeysAmended ==
    opcall.op = "keys" =>
        /\ {opcall.result[i] : i \in DOMAIN opcall.result}
              = StoredNames \cup {"Start Datetime"}
        /\ EachOnce(opcall.result)

\* C16 witness: a name that is both a derived node and an attribute key is
\* listed with the names of the other sets
C16_Witness ==
    /\ opcall.op = "keys"
    /\ "T" \in DOMAIN mgr.derived_nodes \cap DOMAIN mgr.aircraft_info
    /\ "R" \in DOMAIN mgr.achieved_flight_record
    /\ mgr.lfl = {"A", "B"}
    /\ Len(opcall.result) = 5

\* the combination of the dependencies at the positions I, in their order
RECURSIVE Picked(_, _, _)
Picked(deps, I, i) ==
    IF i > Len(deps) THEN <<>>
    ELSE (IF i \in I THEN <<deps[i]>> ELSE <<>>) \o Picked(deps, I, i + 1)

\* what the class's can_operate says of a set of names
Operates(klass, given) ==
    IF klass.override = "any" THEN \E i \in DOMAIN klass.deps : klass.deps[i] \in given
    ELSE \A i \in DOMAIN klass.deps : klass.deps[i] \in given

\* powerset order: shorter combinations first, those of one length in
\* lexicographic order of their positions
Before(I, J) ==
    \/ Cardinality(I) < Cardinality(J)
    \/ /\ Cardinality(I) = Cardinality(J)
       /\ I # J
       /\ \E i \in I \ J : \A j \in (I \ J) \cup (J \ I) : i <= j

\* C17: get_operational_combinations() returns exactly those members of
\* the powerset of the declared dependency names for which the class's
\* can_operate (default or overridden) is true, each once, in powerset order.
C17_OperationalCombinations ==
    opcall.op = "get_operational_combinations" =>
        LET deps == opcall.klass.deps
            tuple(I) == Picked(deps, I, 1)
            operational_sets ==
                {I \in SUBSET DOMAIN deps :
                    Operates(opcall.klass, {deps[i] : i \in I})}
        IN  /\ Len(opcall.result) = Cardinality(operational_sets)
            /\ \A I \in operational_sets :
                  opcall.result[1 + Cardinality({J \in operational_sets : Before(J, I)})]
                      = tuple(I)

\* C17 witness: a class that operates on either of two dependencies has
\* three combinations, the single names before the pair
C17_Witness ==
    /\ opcall.op = "get_operational_combinations"
    /\ opcall.klass.override = "any"
    /\ opcall.klass.deps = <<"B", "A">>
    /\ opcall.result = << <<"B">>, <<"A">>, <<"B", "A">> >>

\* the combinations of the last call that are subsets of available
WithinAvailable ==
    {i \in DOMAIN opcall.combinations :
        \A k \in DOMAIN opcall.combinations[i] :
            opcall.combinations[i][k] \in opcall.available}

\* C18: for any node and any available set, can_operate(available) is true
\* if and only if every combination in get_operational_combinations() that
\* is a subset of available includes at least the declared-required subset
\* of dependencies: all the declared dependencies, for a class that keeps
\* the default can_operate.
C18_SubsetConsistency ==
    (opcall.op = "both" /\ opcall.klass.override = "none") =>
        (opcall.result <=>
            \A i \in WithinAvailable :
                \A d \in DOMAIN opcall.klass.deps :
                    \E k \in DOMAIN opcall.combinations[i] :
                        opcall.combinations[i][k] = opcall.klass.deps[d])

\* C18 as amended: can_operate(available) is true if and only if some
\* combination of get_operational_combinations() is a subset of available.
C18_SubsetAmended ==
    opcall.op = "both" => (opcall.result <=> WithinAvailable # {})

\* C18 witness: one of two dependencies is available, and the class that
\* needs both cannot operate
C18_Witness ==
    /\ opcall.op = "both"
    /\ opcall.klass.override = "none"
    /\ opcall.klass.deps = <<"A", "B">>
    /\ opcall.available = {"A", "D"}
    /\ ~opcall.result
    /\ opcall.combinations = << <<"A", "B">> >>

-----------------------------------------------------------------------------
(* Multi-state claims, under SpecMultistate                                 *)

AssignedLabels == ret.op = "set_array" /\ ret.args.shape = "list"

KnownLabel(l) == \E c \in DOMAIN node.values_mapping : node.values_mapping[c] = l

\* C19: assigning a sequence of labels to the array stores, position by
\* position, a code c with values_mapping[c] equal to the assigned label, so
\* that reading the labels back yields the assigned sequence; assigning a
\* sequence with a label that is not in the mapping raises and leaves the
\* previously stored array unchanged.
C19_LabelRoundTrip ==
    AssignedLabels =>
        IF \A i \in DOMAIN ret.args.value : KnownLabel(ret.args.value[i])
        THEN /\ ret.exc = "none"
             /\ Len(node.array) = Len(ret.args.value)
             /\ \A i \in DOMAIN node.array :
                   /\ ~node.array[i].mask
                   /\ node.array[i].value \in DOMAIN node.values_mapping
                   /\ node.values_mapping[node.array[i].value] = ret.args.value[i]
        ELSE /\ ret.exc # "none"
             /\ node.array = ret.before

\* C19 witness: two labels are assigned over a stored array and their
\* codes are stored
C19_Witness ==
    /\ AssignedLabels
    /\ ret.exc = "none"
    /\ ret.before # <<>>
    /\ ret.args.value = <<"Down", "Up">>
    /\ node.array = <<Cell(1, FALSE), Cell(0, FALSE)>>
    /\ node.array # ret.before

\* C20: after any successful assignment to the array, by any accepted input
\* shape, every unmasked integer code stored in the array is a key of the
\* node's values_mapping.
C20_CodesAreMapped ==
    (ret.op = "set_array" /\ ret.exc = "none") =>
        \A i \in DOMAIN node.array :
            ~node.array[i].mask => node.array[i].value \in DOMAIN node.values_mapping

-----------------------------------------------------------------------------
(* Derivation claims, under SpecDerive                                      *)

\* C21: get_derived returns the node itself only when derive returned no
\* value (None); it raises NotImplementedError when derive returned
\* NotImplemented, and it raises for every other value derive returns,
\* 0, False and empty collections included.
C21_GetDerivedRejectsReturns ==
    ret.op = "get_derived" =>
        LET result == ret.args.result
        IN  /\ (ret.exc = "none") <=> (result = PyNone)
            /\ ret.exc = "none" => ret.val = SelfNode
            /\ result = NotImplemented => ret.exc = "NotImplementedError"

\* the first available dependency of a call: the first argument that is
\* not None and has a non-zero frequency
FirstAvailable(args) ==
    CHOOSE n \in DOMAIN args :
        /\ IsFirstCandidate(args[n])
        /\ \A m \in 1..(n - 1) : ~IsFirstCandidate(args[m])

HasFirstAvailable(args) == \E n \in DOMAIN args : IsFirstCandidate(args[n])

HoldsData(a) == a.kind \in {"param", "section", "kti", "kpv"}

\* C28: with align_to_first_dependency, every dependency that is not None
\* and comes after the first available one reaches derive as its
\* get_aligned(first) result, so that every such parameter or collection,
\* an empty collection included, has the first dependency's frequency and
\* offset; the first dependency itself is passed unchanged.
C28_AlignedToFirst ==
    (/\ ret.op = "get_derived"
     /\ node.align_to_first_dependency
     /\ HasFirstAvailable(ret.args.args)) =>
        LET args == ret.args.args
            passed == ret.before
            i == FirstAvailable(args)
        IN  /\ DOMAIN passed = DOMAIN args
            /\ passed[i] = args[i]
            /\ \A n \in DOMAIN args :
                  (n > i /\ args[n] # PyNone) =>
                      /\ passed[n] = Dependency_get_aligned(args[n], args[i])
                      /\ HoldsData(args[n]) =>
                            /\ passed[n].frequency = args[i].frequency
                            /\ passed[n].offset = args[i].offset

-----------------------------------------------------------------------------
(* Declaration claims, under SpecSignature                                  *)

OnlyKeywords(method) ==
    /\ method.positional = <<"self">>
    /\ method.defaults # <<>>
    /\ ~method.varargs

\* C22: get_param_kwarg_names(derive) returns the keyword defaults in
\* declaration order when derive takes only self and keyword parameters
\* with defaults; it raises ValueError for no keyword defaults, for a
\* positional parameter other than self, and for *args, and
\* NotImplementedError for **kwargs on an otherwise accepted method; a node
\* class with no declared dependency can neither be constructed nor asked
\* for its dependencies without an error.
C22_DeclaredDependencies ==
    LET method == cls.derive
    IN  /\ ret.op = "get_param_kwarg_names" =>
              /\ (OnlyKeywords(method) /\ ~method.varkw) =>
                    (ret.exc = "none" /\ ret.val = method.defaults)
              /\ ~OnlyKeywords(method) => ret.exc = "ValueError"
              /\ (OnlyKeywords(method) /\ method.varkw) =>
                    ret.exc = "NotImplementedError"
        /\ (/\ ret.op \in {"get_dependency_names", "Node", "analysis.Node"}
            /\ method.defaults = <<>>) => ret.exc # "none"

-----------------------------------------------------------------------------
(* Section claims, under SpecSection                                        *)

\* C23: create_section(section_slice, name, begin, end) appends exactly one
\* Section at the end and leaves the existing sections unchanged; the new
\* Section holds the given slice, the given name (the node's name when none
\* is given), start_edge equal to begin whenever begin is supplied, for
\* every numeric value of begin, otherwise section_slice.start, and
\* stop_edge equal to end whenever end is supplied, otherwise
\* section_slice.stop.
C23_CreateSectionAppends ==
    ret.op = "create_section" =>
        LET after == Contents(node, heap)
            call == ret.args
            new == after[Len(after)]
        IN  /\ Len(after) = Len(ret.before) + 1
            /\ SubSeq(after, 1, Len(ret.before)) = ret.before
            /\ new.slice = call.slice
            /\ new.name = IF call.name.text # "" THEN call.name ELSE node.name
            /\ new.start_edge =
                  IF IsNone(call.begin) THEN call.slice.start ELSE call.begin
            /\ new.stop_edge =
                  IF IsNone(call.end) THEN call.slice.stop ELSE call.end

-----------------------------------------------------------------------------
(* Shortcut claims, under SpecShortcut                                      *)

\* C24: create_kpv_from_slices maps the joined-buffer index back to the
\* original array: for any list of slices and any function result (j, v)
\* with j inside the joined buffer, the single KPV created has value v and
\* an index i such that position i of the original array is the element at
\* position j of the concatenation of the sliced data.
C24_JoinedIndexMapsBack ==
    (ret.op = "create_kpv_from_slices" /\ ~IsNone(ret.args.index)) =>
        LET after == Contents(node, heap)
            joined == JoinedPositions(ret.args.slices, ret.args.array_len)
        IN  /\ Len(after) = 1
            /\ PyEq(after[1].value, ret.args.value)
            /\ after[1].index = PyInt(joined[ret.args.index.n + 1])

\* C29: create_kpv_outside_slices treats its input array as read-only:
\* after the call the caller's array has the same values and the same mask
\* as before.
C29_ArrayIsReadOnly ==
    ret.op = "create_kpv_outside_slices" =>
        heap[ArrayId].array = ret.args.array

\* start and end of an interval: the edges of a Section, the bounds of a
\* slice
IntervalStart(x) == IF x.is_section THEN x.start_edge ELSE x.slice.start
IntervalStop(x)  == IF x.is_section THEN x.stop_edge ELSE x.slice.stop
IntervalDuration(x) == RatSub(IntervalStop(x), IntervalStart(x))

IntervalMark(x, mark) ==
    IF mark = "start" THEN IntervalStart(x)
    ELSE IF mark = "end" THEN IntervalStop(x)
    ELSE RatDiv(RatAdd(IntervalStop(x), IntervalStart(x)), PyInt(2))

\* the intervals of a list that exceed the minimum duration, in order
RECURSIVE LongEnough(_, _)
LongEnough(slices, min_duration) ==
    IF slices = <<>> THEN <<>>
    ELSE IF PyLess(min_duration, IntervalDuration(Head(slices)))
    THEN <<Head(slices)>> \o LongEnough(Tail(slices), min_duration)
    ELSE LongEnough(Tail(slices), min_duration)

\* C27: create_kpvs_from_slice_durations creates exactly one KPV for each
\* input interval whose duration exceeds min_duration and none for the
\* others; the KPV's value is the interval's duration and its index the
\* interval's start, midpoint or end according to mark; for a Section,
\* duration and index are taken from its start_edge and stop_edge rather
\* than from its slice bounds.
C27_DurationsOfIntervals ==
    (/\ ret.op = "create_kpvs_from_slice_durations"
     /\ ret.args.mark \in {"start", "midpoint", "end"}) =>
        LET after == Contents(node, heap)
            long == LongEnough(ret.args.slices, ret.args.min_duration)
        IN  /\ ret.exc = "none"
            /\ Len(after) = Len(long)
            /\ \A k \in DOMAIN long :
                  /\ PyEq(after[k].value, IntervalDuration(long[k]))
                  /\ PyEq(after[k].index, IntervalMark(long[k], ret.args.mark))

\* the ranges a call scans: the whole array, or the slice of each section
\* of the phase, as the positions [start, stop) of the array
ScannedRanges(array, phase) ==
    IF ~phase.given THEN <<[start |-> 0, stop |-> Len(array)]>>
    ELSE [k \in DOMAIN phase.slices |->
             [start |-> SliceLow(phase.slices[k], Len(array)),
              stop |-> SliceHigh(phase.slices[k], Len(array))]]

\* the maximal runs of the state inside a range, at their positions in the
\* full array, in order
RunsInRange(array, state, range) ==
    LET inside == [k \in 1..(IF range.stop > range.start
                            THEN range.stop - range.start ELSE 0) |->
                      array[range.start + k]]
        periods == StatePeriods(inside, state, 1)
    IN  [k \in DOMAIN periods |->
            [start |-> periods[k].start + range.start,
             stop |-> periods[k].stop + range.start,
             first |-> periods[k].start = 0,
             last |-> periods[k].stop = Len(inside)]]

RECURSIVE RunsInRanges(_, _, _)
RunsInRanges(array, state, ranges) ==
    IF ranges = <<>> THEN <<>>
    ELSE RunsInRange(array, state, Head(ranges))
         \o RunsInRanges(array, state, Tail(ranges))

RunDuration(run, hz) == RatDiv(PyInt(run.stop - run.start), hz)

RECURSIVE LongRuns(_, _, _)
LongRuns(runs, hz, min_duration) ==
    IF runs = <<>> THEN <<>>
    ELSE IF PyLess(RunDuration(Head(runs), hz), min_duration)
    THEN LongRuns(Tail(runs), hz, min_duration)
    ELSE <<Head(runs)>> \o LongRuns(Tail(runs), hz, min_duration)

\* C25: create_kpvs_where_state creates exactly one KPV for each maximal run
\* of the state inside the scanned range whose duration (samples divided by
\* hz) is at least min_duration and none for shorter runs; the KPV's value
\* is that duration in seconds, for every hz, and its index the position of
\* the run's first sample in the full array, also for phase slices that do
\* not start at 0.
C25_KpvPerRunOfState ==
    ret.op = "create_kpvs_where_state" =>
        LET after == Contents(node, heap)
            a == ret.args
            runs == LongRuns(RunsInRanges(a.array, a.state,
                                          ScannedRanges(a.array, a.phase)),
                             a.hz, a.min_duration)
        IN  /\ Len(after) = Len(runs)
            /\ \A k \in DOMAIN runs :
                  /\ PyEq(after[k].value, RunDuration(runs[k], a.hz))
                  /\ PyEq(after[k].index, PyInt(runs[k].start))

\* the KTI indexes one run calls for: half a sample before its first
\* sample and half a sample after its last one, unless the run touches
\* that end of the scanned range
RunKtis(run, change) ==
    (IF change \in {"entering", "entering_and_leaving"} /\ ~run.first
     THEN <<RatSub(PyInt(run.start), PyFloat(1, 2))>> ELSE <<>>)
    \o (IF change \in {"leaving", "entering_and_leaving"} /\ ~run.last
        THEN <<RatAdd(PyInt(run.stop - 1), PyFloat(1, 2))>> ELSE <<>>)

RECURSIVE RunsKtis(_, _)
RunsKtis(runs, change) ==
    IF runs = <<>> THEN <<>>
    ELSE RunKtis(Head(runs), change) \o RunsKtis(Tail(runs), change)

-----------------------------------------------------------------------------
(* Multi-state claims, under SpecMapping                                    *)

====
